---- MODULE Spec2Model ----
(***************************************************************************)
(* conda-ops: the staged lock-generation pipeline (lockfile_generate) and  *)
(* the operations on the managed environment, as a state machine.          *)
(*                                                                         *)
(* State: the requirements file (manifest), the canonical lock file, the   *)
(* scratch files of the ops directory, the conda environments known to the *)
(* resolver, the active environment, and the position of a running         *)
(* lockfile_generate.  The external resolver (conda / pip) is a            *)
(* nondeterministic collaborator: every call either fails or succeeds.     *)
(***************************************************************************)
EXTENDS Integers, Sequences, FiniteSets, TLC

\* ------------------------------------------------------------------------
\* Bounds of the model
\* ------------------------------------------------------------------------
\* scratch environments left behind by earlier runs that may pile up
MaxLeaked == 1
\* lockfile_generate runs started in one behaviour
MaxRuns == 2
\* The modification times drawn for the manifest and the lock file: 0..MaxTime
MaxTime == 2
\* segments of one pip transcript
MaxSegments == 2

\* ------------------------------------------------------------------------
\* Program constants and names
\* ------------------------------------------------------------------------
\* for i in range(100): the suffixes probed for the scratch environment
ProbeLimit == 100

env_name == "proj"
raw_test_env == env_name \o "-lockfile-generate"
base_env == "base"
platform == "linux-64"
None == "<None>"

Range(s) == {s[k] : k \in DOMAIN s}

\* Python's `t in s` on strings
Contains(s, t) == \E k \in 1..(Len(s) - Len(t) + 1) : SubSeq(s, k, k + Len(t) - 1) = t

RemoveAt(s, k) == SubSeq(s, 1, k - 1) \o SubSeq(s, k + 1, Len(s))

\* list.remove(x): drops the first element equal to x
RemoveFirst(s, x) ==
    IF x \notin Range(s) THEN s
    ELSE LET k == CHOOSE j \in DOMAIN s : s[j] = x /\ \A h \in 1..(j - 1) : s[h] # x
         IN RemoveAt(s, k)

\* ------------------------------------------------------------------------
\* The manifest (requirements file)
\* ------------------------------------------------------------------------
\* One entry of `dependencies`: a spec string "chan::name==ver", or the
\* nested {"pip": [...]} mapping.  `ok` is whether MatchSpec / Requirement
\* accepts the text, `canonical` whether str() of the parsed spec is the text
\* itself ("python>=3" is accepted and is not: its str() is
\* "python[version='>=3']").
CondaDep(chan, name, ver) ==
    [kind |-> "conda", chan |-> chan, name |-> name, ver |-> ver, ok |-> TRUE,
     canonical |-> TRUE, pip |-> <<>>]
PipDep(name, ver) ==
    [kind |-> "pip", chan |-> "", name |-> name, ver |-> ver, ok |-> TRUE,
     canonical |-> TRUE, pip |-> <<>>]
BadDep(name) ==
    [kind |-> "conda", chan |-> "", name |-> name, ver |-> "", ok |-> FALSE,
     canonical |-> TRUE, pip |-> <<>>]
PipSection(specs) ==
    [kind |-> "pipdict", chan |-> "", name |-> "", ver |-> "", ok |-> TRUE,
     canonical |-> TRUE, pip |-> specs]

Reqs(order, deps) == [exists |-> TRUE, name |-> env_name, order |-> order, deps |-> deps]
NoReqs == [exists |-> FALSE, name |-> env_name, order |-> <<>>, deps |-> <<>>]

\* The manifests an operator may leave in the requirements file.  reqs_add
\* keeps the pip section first and the specs sorted; reqs_remove leaves a
\* channel in channel-order when its last package goes.
ReqsDefault == Reqs(<<"defaults">>, <<CondaDep("", "python", "")>>)
ReqsPinned == Reqs(<<"defaults">>, <<CondaDep("", "python", "1.2")>>)
ReqsForge ==
    Reqs(<<"defaults", "conda-forge">>,
         <<CondaDep("conda-forge", "pylint", ""), CondaDep("", "python", "")>>)
ReqsForgePip ==
    Reqs(<<"defaults", "conda-forge">>,
         <<PipSection(<<PipDep("flask", "")>>), CondaDep("conda-forge", "pylint", ""),
           CondaDep("", "python", "")>>)
ReqsEmptyLast == Reqs(<<"defaults", "conda-forge">>, <<CondaDep("", "python", "")>>)
ReqsEmptyFirst ==
    Reqs(<<"defaults", "conda-forge">>, <<CondaDep("conda-forge", "pylint", "")>>)
ReqsEmptyMiddle ==
    Reqs(<<"defaults", "conda-forge", "bioconda">>,
         <<CondaDep("bioconda", "samtools", ""), CondaDep("", "python", "")>>)
\* reqs add flask -c pypi
ReqsPypiChannel ==
    Reqs(<<"defaults", "pypi">>, <<CondaDep("", "python", ""), CondaDep("pypi", "flask", "")>>)
ReqsDuplicate ==
    Reqs(<<"defaults">>, <<CondaDep("", "python", ""), CondaDep("", "python", "1.2")>>)
ReqsMalformed == Reqs(<<"defaults">>, <<BadDep("python"), CondaDep("", "pylint", "")>>)
ReqsNoOrderEntry ==
    Reqs(<<"defaults">>, <<CondaDep("conda-forge", "pylint", ""), CondaDep("", "python", "")>>)

\* and hand-edited ones: the pip section after a qualified spec, a spec
\* qualified with defaults, a channel outside channel-order after the pip
\* section
Manifests ==
    {ReqsDefault, ReqsPinned, ReqsForge, ReqsForgePip, ReqsEmptyLast, ReqsEmptyFirst,
     ReqsEmptyMiddle, ReqsPypiChannel, ReqsDuplicate, ReqsMalformed, ReqsNoOrderEntry,
     Reqs(<<"defaults", "conda-forge">>,
          <<CondaDep("conda-forge", "pylint", ""), PipSection(<<PipDep("flask", "")>>),
            CondaDep("", "python", "")>>),
     Reqs(<<"defaults">>, <<CondaDep("defaults", "python", ""), CondaDep("", "pylint", "")>>),
     Reqs(<<"defaults">>,
          <<PipSection(<<PipDep("flask", "")>>), CondaDep("", "python", ""),
            CondaDep("bioconda", "samtools", "")>>)}

\* pop_pip_section: the first nested mapping with a non-empty "pip" list
PipSpecs(deps) ==
    LET dicts == {k \in DOMAIN deps : deps[k].kind = "pipdict" /\ deps[k].pip # <<>>}
    IN IF dicts = {} THEN <<>>
       ELSE deps[CHOOSE k \in dicts : \A h \in dicts : k <= h].pip
CondaSpecs(deps) ==
    LET dicts == {k \in DOMAIN deps : deps[k].kind = "pipdict" /\ deps[k].pip # <<>>}
    IN IF dicts = {} THEN deps
       ELSE RemoveAt(deps, CHOOSE k \in dicts : \A h \in dicts : k <= h)

\* check_for_duplicates over the names of all specs
HasDuplicates(specs) ==
    \E j, k \in DOMAIN specs : j # k /\ specs[j].name = specs[k].name

\* reqs_check(config, die_on_error=False): the file exists, its name is the
\* managed environment's, every spec parses and no name is given twice.
reqs_check(r) ==
    /\ r.exists
    /\ r.name = env_name
    /\ LET specs == SelectSeq(CondaSpecs(r.deps), LAMBDA d : d.kind # "pipdict")
                    \o PipSpecs(r.deps)
       IN /\ \A k \in DOMAIN specs : specs[k].ok
          /\ ~HasDuplicates(specs)

\* What a check answers: its value, or sys.exit when die_on_error is given
\* and the value is False
Answer(check, die_on_error) ==
    IF check THEN "True" ELSE IF die_on_error THEN "exit" ELSE "False"

\* reqs_check(config, die_on_error) as a call: what it answers and the file
\* it leaves.  `answer` is the operator's reply to the prompt shown when the
\* manifest's name is not the managed environment's.  The canonicalising
\* update opens the file with mode "r" and dumps into it: the dump raises
\* io.UnsupportedOperation and the file keeps its content.
reqs_check_call(r, answer, die_on_error) ==
    IF ~r.exists THEN [result |-> Answer(FALSE, die_on_error), reqs |-> r]
    ELSE
    LET rename == r.name # env_name /\ answer = "y"
        named == IF rename THEN [r EXCEPT !.name = env_name] ELSE r
        conda_deps == CondaSpecs(r.deps)
        pip_deps == PipSpecs(r.deps)
        IsValid(d) == d.kind # "pipdict" /\ d.ok
        valid_specs == SelectSeq(conda_deps, IsValid)
        valid_pip_specs == SelectSeq(pip_deps, IsValid)
        invalid_specs == SelectSeq(conda_deps \o pip_deps, LAMBDA d : ~IsValid(d))
        package_name_list == valid_specs \o valid_pip_specs
        update == \E d \in Range(package_name_list) : ~d.canonical
        check == /\ (r.name = env_name \/ rename)
                 /\ invalid_specs = <<>>
                 /\ ~HasDuplicates(package_name_list)
    IN IF check /\ update
       THEN [result |-> "raise", reqs |-> named]
       ELSE [result |-> Answer(check, die_on_error), reqs |-> named]

\* ------------------------------------------------------------------------
\* Manifest splitter (split_requirements.py)
\* ------------------------------------------------------------------------
\* get_channel_order: defaults first when absent, the pip stage appended last
get_channel_order(channel_order) ==
    Append(IF "defaults" \in Range(channel_order) THEN channel_order
           ELSE <<"defaults">> \o channel_order,
           "pip")

\* prefix_check[1]: the spec with its channel qualifier stripped
Bare(dep) == [dep EXCEPT !.chan = ""]

\* The loop of env_split over a copy of the dependency list: k indexes the
\* copy `orig`, while pop(k) and remove(dep) act on the list being mutated.
\* cd is channel_dict (a defaultdict(list)); cd["pip"] holds the popped item.
RECURSIVE SplitLoop(_, _, _, _, _)
SplitLoop(k, orig, deplist, cd, channel_order) ==
    IF k > Len(orig) THEN [err |-> FALSE, deplist |-> deplist, cd |-> cd]
    ELSE LET dep == orig[k] IN
         IF dep.kind = "pipdict" THEN
            IF dep.pip = <<>> THEN SplitLoop(k + 1, orig, deplist, cd, channel_order)
            ELSE IF k > Len(deplist)
                 THEN [err |-> TRUE, deplist |-> deplist, cd |-> cd]
                 ELSE SplitLoop(k + 1, orig, RemoveAt(deplist, k),
                                [cd EXCEPT !["pip"] = <<deplist[k]>>], channel_order)
         ELSE IF dep.chan # "" THEN
            IF dep.chan \notin Range(channel_order)
            THEN [err |-> TRUE, deplist |-> deplist, cd |-> cd]
            ELSE SplitLoop(k + 1, orig, RemoveFirst(deplist, dep),
                           [cd EXCEPT ![dep.chan] = Append(@, Bare(dep))], channel_order)
         ELSE SplitLoop(k + 1, orig, deplist, cd, channel_order)

\* An env_split that carries on past a channel outside channel_order
env_split_lenient(deps, channel_order) ==
    LET r == SplitLoop(1, deps, deps, [c \in Range(channel_order) |-> <<>>], channel_order)
    IN [r EXCEPT !.err = FALSE, !.cd["defaults"] = r.deplist]

\* env_split: channel_dict, or err when it raises
env_split(deps, channel_order) ==
    LET r == SplitLoop(1, deps, deps, [c \in Range(channel_order) |-> <<>>], channel_order)
    IN IF r.err THEN r ELSE [r EXCEPT !.cd["defaults"] = r.deplist]

\* type(channel_dict['pip']) is dict
PipIsDict(cd) == Len(cd["pip"]) = 1 /\ cd["pip"][1].kind = "pipdict"

\* "\n".join(channel_dict[kind]) raises on a list that holds the nested mapping
Joinable(list) == \A k \in DOMAIN list : list[k].kind # "pipdict"

AbsentFile == [exists |-> FALSE, body |-> <<>>]
File(body) == [exists |-> TRUE, body |-> body]

\* The scratch files of the ops directory, by name
EnvironmentTxt(channel) == ".ops." \o channel \o "-environment.txt"
RequirementsTxt(channel) == ".ops." \o channel \o "-requirements.txt"

\* The file create_split_files writes for one entry of channel_order
SplitFileName(kind) == IF kind = "pip" THEN RequirementsTxt("pip") ELSE EnvironmentTxt(kind)

\* The stage whose file create_split_files fails to write, 0 when none
FirstUnjoinable(cd, channel_order) ==
    LET bad == {k \in DOMAIN channel_order :
                  channel_order[k] # "pip" /\ ~Joinable(cd[channel_order[k]])}
    IN IF bad = {} THEN 0 ELSE CHOOSE k \in bad : \A h \in bad : k <= h

\* create_split_files on manifest r over the scratch files (order file and
\* per-stage requirement files): the files afterwards, and whether it raised.
\* The channel-order file is written before env_split runs, without the
\* trailing pip entry.
create_split_files(r, order_file, req_files) ==
    LET channel_order == get_channel_order(r.order)
        written_order == File(SubSeq(channel_order, 1, Len(channel_order) - 1))
        split == env_split(r.deps, channel_order)
        stop == IF split.err THEN 0 ELSE FirstUnjoinable(split.cd, channel_order)
        upto == IF stop = 0 THEN Len(channel_order) ELSE stop - 1
        kinds == {channel_order[k] : k \in 1..upto}
        content(f) ==
            LET kind == CHOOSE c \in kinds : SplitFileName(c) = f
            IN IF kind = "pip"
               THEN IF PipIsDict(split.cd) THEN File(split.cd["pip"][1].pip) ELSE req_files[f]
               ELSE File(split.cd[kind])
    IN IF split.err
       THEN [raised |-> TRUE, order_file |-> written_order, req_files |-> req_files]
       ELSE [raised |-> stop # 0,
             order_file |-> written_order,
             req_files |->
                [f \in DOMAIN req_files |->
                    IF f \in {SplitFileName(c) : c \in kinds} THEN content(f)
                    ELSE req_files[f]]]

\* ------------------------------------------------------------------------
\* Environments and the external resolver
\* ------------------------------------------------------------------------
\* An installed package is [name, version, channel]; an environment is a set
\* of them, one per name.  conda list reports pip-installed packages with
\* channel "pypi".
Pkg(name, version, channel) == [name |-> name, version |-> version, channel |-> channel]
Names(pkgs) == {p.name : p \in pkgs}
PkgNamed(pkgs, name) == CHOOSE p \in pkgs : p.name = name

\* The build a channel offers of a package (the resolver's view of the
\* outside world): defaults and conda-forge carry different pythons
Offered(name, channel) ==
    IF name = "python" THEN (IF channel = "pkgs/main" THEN "1.2" ELSE "1.3") ELSE "2.0"
Requires(name) == IF name = "pylint" THEN {"python"} ELSE {}
ListingChannel(channel) == IF channel = "defaults" THEN "pkgs/main" ELSE channel

\* ver_eval / `version in specifier` for the exact pins the manifests use
Satisfies(version, ver) == ver = "" \/ version = ver

\* Whether `conda install/create -c channel package_list` (or pip install)
\* can succeed: the channel offers a build that satisfies every new spec
Installable(pkgs, channel, package_list) ==
    \A k \in DOMAIN package_list :
        LET d == package_list[k]
        IN \/ d.name \in Names(pkgs) /\ Satisfies(PkgNamed(pkgs, d.name).version, d.ver)
           \/ Satisfies(Offered(d.name, ListingChannel(channel)), d.ver)

\* An install that builds the environment anew from the stage's packages
InstallFresh(pkgs, channel, package_list) ==
    LET wanted == Range(package_list)
        deps == (UNION {Requires(d.name) : d \in wanted}) \ {d.name : d \in wanted}
    IN {Pkg(n, Offered(n, ListingChannel(channel)), ListingChannel(channel)) :
          n \in {d.name : d \in wanted} \cup deps}

\* The environment a successful install leaves: a requested package that is
\* installed and satisfies its spec stays, any other is installed from the
\* channel; a missing dependency comes from the same channel.
Install(pkgs, channel, package_list) ==
    LET wanted == Range(package_list)
        kept(d) == d.name \in Names(pkgs) /\ Satisfies(PkgNamed(pkgs, d.name).version, d.ver)
        fresh == {d.name : d \in {w \in wanted : ~kept(w)}}
        deps == (UNION {Requires(d.name) : d \in wanted})
                    \ (Names(pkgs) \cup {d.name : d \in wanted})
    IN {p \in pkgs : p.name \notin fresh}
          \cup {Pkg(n, Offered(n, ListingChannel(channel)), ListingChannel(channel)) :
                  n \in fresh \cup deps}

\* conda list --json: the packages in name order
PkgOrder == <<"flask", "pip", "pylint", "pylint-venv", "python", "samtools">>
ListJson(pkgs) ==
    LET present == SelectSeq(PkgOrder, LAMBDA n : n \in Names(pkgs))
    IN [k \in DOMAIN present |-> PkgNamed(pkgs, present[k])]

\* base_url, dist_name of a conda list --json record
\* (a package built on this machine is listed under the channel "local",
\* whose base_url is a file: url)
BaseUrl(p) ==
    IF p.channel = "local" THEN "file:///opt/conda-bld" ELSE "https://r.io/" \o p.channel
DistName(p) == p.name \o "-" \o p.version \o "-0"
Md5(p) == "md5" \o p.name \o p.version

\* conda list --explicit --md5: one "<url>#<md5>" line per conda package
ExplicitLine(p) ==
    BaseUrl(p) \o "/" \o platform \o "/" \o DistName(p) \o ".conda" \o "#" \o Md5(p)
ListExplicit(pkgs) ==
    LET conda == SelectSeq(ListJson(pkgs), LAMBDA p : p.channel # "pypi")
    IN [k \in DOMAIN conda |-> ExplicitLine(conda[k])]

\* ------------------------------------------------------------------------
\* Lock entries (LockSpec) and env_lock
\* ------------------------------------------------------------------------
LockEntry(name, version, channel, manager, url, hash) ==
    [name |-> name, version |-> version, channel |-> channel, manager |-> manager,
     url |-> url, hash |-> hash]

\* LockSpec.from_conda_list
from_conda_list(p) ==
    LockEntry(p.name, p.version, p.channel,
              IF p.channel = "pypi" THEN "pip" ELSE "conda", None, None)

\* str.split("#"): the text before the first "#" and the text after the last
HashAt(line) == {k \in 1..Len(line) : SubSeq(line, k, k) = "#"}
BeforeHash(line) ==
    IF HashAt(line) = {} THEN line
    ELSE SubSeq(line, 1, (CHOOSE k \in HashAt(line) : \A h \in HashAt(line) : k <= h) - 1)
AfterHash(line) ==
    IF HashAt(line) = {} THEN line
    ELSE SubSeq(line, (CHOOSE k \in HashAt(line) : \A h \in HashAt(line) : k >= h) + 1,
                Len(line))

\* LockSpec.add_conda_explicit_info: err when the line does not name the entry
add_conda_explicit_info(entry, explicit_string) ==
    IF entry.manager # "conda" \/ ~Contains(explicit_string, entry.name)
    THEN [err |-> TRUE, entry |-> entry]
    ELSE [err |-> FALSE,
          entry |-> [entry EXCEPT !.hash = AfterHash(explicit_string),
                                  !.url = BeforeHash(explicit_string)]]

\* LockSpec.from_pip_report for a package pip has just downloaded
from_pip_report(p) ==
    LockEntry(p.name, p.version, "pypi", "pip",
              "https://files.io/" \o p.name \o "-" \o p.version \o ".whl",
              "sha256" \o p.name \o p.version)

\* extract_pip_info: pip's report lists the packages this call installed
NoPipDict == [given |-> FALSE, entries |-> {}]
extract_pip_info(installed) == [given |-> TRUE, entries |-> {from_pip_report(p) : p \in installed}]

\* for line in explicit: if starter_str in line: break
\* the first matching line; the last line when none matches; None on no lines
PickLine(explicit, starter_str) ==
    LET hits == {k \in DOMAIN explicit : Contains(explicit[k], starter_str)}
    IN IF explicit = <<>> THEN None
       ELSE IF hits = {} THEN explicit[Len(explicit)]
       ELSE explicit[CHOOSE k \in hits : \A h \in hits : k <= h]

\* The lock record env_lock builds for one listed package
LockOne(p, explicit, pip_dict) ==
    LET conda_spec == from_conda_list(p)
        mine == {e \in pip_dict.entries : e.name = p.name}
        line == PickLine(explicit, BaseUrl(p) \o "/" \o platform \o "/" \o DistName(p))
    IN IF p.channel = "pypi"
       THEN IF pip_dict.given /\ mine # {}
            THEN LET pip_spec == CHOOSE e \in mine : TRUE
                 IN [err |-> pip_spec.version # conda_spec.version, entry |-> pip_spec]
            ELSE [err |-> FALSE, entry |-> conda_spec]
       ELSE IF line = None THEN [err |-> FALSE, entry |-> conda_spec]
            ELSE add_conda_explicit_info(conda_spec, line)

\* env_lock: the records written to the lock segment, err when it exits
env_lock(pkgs, pip_dict) ==
    LET json_reqs == ListJson(pkgs)
        explicit == SelectSeq(ListExplicit(pkgs), LAMBDA x : Contains(x, "https"))
        each == [k \in DOMAIN json_reqs |-> LockOne(json_reqs[k], explicit, pip_dict)]
    IN [err |-> \E k \in DOMAIN each : each[k].err,
        entries |-> [k \in DOMAIN each |-> each[k].entry]]

\* ------------------------------------------------------------------------
\* Lock file checks (commands_lockfile.py)
\* ------------------------------------------------------------------------
\* LockSpec.check_consistency: a conda entry's url holds its name, version
\* and channel; manager and channel agree
check_consistency(e) ==
    /\ (e.manager = "conda" /\ e.url # None) =>
          /\ Contains(e.url, e.name)
          /\ Contains(e.url, e.version)
          /\ Contains(e.url, e.channel)
    /\ ~(e.manager = "pip" /\ e.channel # "pypi")
    /\ ~(e.manager = "conda" /\ e.channel = "pypi")

\* LockSpec.platform == platform: the entry's url lies in that platform's
\* directory of its channel
ForPlatform(e, plat) == e.url # None /\ Contains(e.url, "/" \o plat \o "/")

\* lockfile_check(config, die_on_error=False, platform=plat): the file
\* exists, every entry is consistent and has a url and, unless the list is
\* empty, some entry is for the platform (`if json_reqs:` skips an empty list)
lockfile_check_platform(lf, plat) ==
    /\ lf.exists
    /\ \A k \in DOMAIN lf.body :
          /\ check_consistency(lf.body[k])
          /\ lf.body[k].url # None
    /\ lf.body # <<>> => \E k \in DOMAIN lf.body : ForPlatform(lf.body[k], plat)

\* lockfile_check(config, die_on_error=False) with conda's own platform
lockfile_check(lf) == lockfile_check_platform(lf, platform)

\* A lock file whose text json.load cannot parse
Unparsable == [exists |-> TRUE, body |-> <<>>, json |-> FALSE]

\* lockfile_check(config, die_on_error, platform=plat) as a call.  When
\* json.load raises, the except clause sets check = False and logs; the next
\* statement reads json_reqs, which was never bound: UnboundLocalError.
lockfile_check_call(lf, plat, die_on_error) ==
    IF "json" \in DOMAIN lf THEN "raise"
    ELSE Answer(lockfile_check_platform(lf, plat), die_on_error)

\* The specs of the manifest whose name no lock entry has, whatever version
missing_packages_by_name(r, lock_dict) ==
    LET channel_order == get_channel_order(r.order)
        split == env_split(r.deps, channel_order)
        conda == UNION {Range(split.cd[c]) : c \in Range(channel_order) \ {"pip"}}
        pip == IF PipIsDict(split.cd) THEN Range(split.cd["pip"][1].pip) ELSE {}
    IN {d \in conda \cup pip : \A k \in DOMAIN lock_dict : lock_dict[k].name # d.name}

\* The specs of the manifest that no lock entry answers: by name, then by
\* version when the spec pins one
missing_packages(r, lock_dict) ==
    LET channel_order == get_channel_order(r.order)
        split == env_split(r.deps, channel_order)
        conda == UNION {Range(split.cd[c]) : c \in Range(channel_order) \ {"pip"}}
        pip == IF PipIsDict(split.cd) THEN Range(split.cd["pip"][1].pip) ELSE {}
        answered(d) == \E k \in DOMAIN lock_dict :
                          /\ lock_dict[k].name = d.name
                          /\ Satisfies(lock_dict[k].version, d.ver)
    IN {d \in conda \cup pip : ~answered(d)}

\* lockfile_reqs_check(config, die_on_error=False)
lockfile_reqs_check(r, lf, newer) ==
    /\ reqs_check(r)
    /\ lockfile_check(lf)
    /\ ~newer
    /\ ~env_split(r.deps, get_channel_order(r.order)).err
    /\ missing_packages(r, lf.body) = {}

\* ------------------------------------------------------------------------
\* The environment against the lock file (commands_env.py)
\* ------------------------------------------------------------------------
\* LockSpec.to_explicit: the line of an explicit file, or None when the
\* concatenation raises inside the try (a url or an md5 that is None; a None
\* sha256 is formatted into the text)
to_explicit(e) ==
    IF e.manager = "conda"
    THEN IF e.url = None \/ e.hash = None THEN None ELSE e.url \o "#" \o e.hash
    ELSE IF e.manager = "pip"
    THEN IF e.url = None THEN None
         ELSE e.name \o " @ " \o e.url \o " --hash=sha256:"
                  \o (IF e.hash = None THEN "None" ELSE e.hash)
    ELSE None

\* LockSpec.hash_exists: the entry has a content hash
hash_exists(e) == e.hash # None

\* json_to_explicit(json_list, package_manager, hash_exists), as a function
\* of its last two arguments: the lines of the entries it takes.  It exits at
\* an entry that fails check_consistency, and `to_explicit() + "\n"` raises
\* TypeError at a taken entry whose to_explicit is None, whichever entry
\* comes first.
json_to_explicit(json_list) ==
    LET inconsistent == {k \in DOMAIN json_list : ~check_consistency(json_list[k])}
    IN [package_manager \in {"conda", "pip"}, hash_wanted \in BOOLEAN |->
          LET taken(e) == e.manager = package_manager /\ hash_wanted = hash_exists(e)
              stops == inconsistent \cup
                          {k \in DOMAIN json_list :
                              taken(json_list[k]) /\ to_explicit(json_list[k]) = None}
              first == CHOOSE k \in stops : \A h \in stops : k <= h
              chosen == SelectSeq(json_list, taken)
          IN IF stops = {}
             THEN [end |-> "ok",
                   lines |-> [k \in DOMAIN chosen |-> to_explicit(chosen[k])]]
             ELSE [end |-> IF first \in inconsistent THEN "exit" ELSE "raise",
                   lines |-> <<>>]]

\* generate_explicit_lock_files(config) with the conda explicit file's name
\* left open: how it ends and the text of each file it has written by then.
\* The conda file is written always, a pip file only when it has lines.
explicit_lock_files(body, conda_file) ==
    LET pass == json_to_explicit(body)
        conda == pass["conda", TRUE]
        hashed == pass["pip", TRUE]
        nohash == pass["pip", FALSE]
        written(name, p) ==
            IF p.end = "ok" /\ p.lines # <<>> THEN name :> p.lines ELSE <<>>
    IN IF conda.end # "ok" THEN [end |-> conda.end, text |-> <<>>]
       ELSE IF hashed.end # "ok"
       THEN [end |-> hashed.end, text |-> conda_file :> conda.lines]
       ELSE [end |-> nohash.end,
             text |-> (conda_file :> conda.lines)
                         @@ written("pip_explicit_lockfile", hashed)
                         @@ written("nohash_explicit_lockfile", nohash)]

\* generate_explicit_lock_files that writes over the lock file itself
generate_explicit_lock_files_in_place(body) == explicit_lock_files(body, "lockfile")

\* generate_explicit_lock_files(config)
generate_explicit_lock_files(body) == explicit_lock_files(body, "explicit_lockfile")

\* The pip packages of an environment with their versions left out
conda_dict_names(pkgs) ==
    [n \in {p.name : p \in {q \in pkgs : q.channel \in {"pypi", "<develop>"}}} |-> ""]

\* conda_dict: name -> version of the packages conda list --json gives the
\* channel pypi or <develop>
conda_dict(pkgs) ==
    [n \in {p.name : p \in {q \in pkgs : q.channel \in {"pypi", "<develop>"}}} |->
        PkgNamed(pkgs, n).version]

\* lock_dict: name -> version of the lock entries whose manager is pip, a
\* later entry of a name replacing an earlier one
lock_dict(body) ==
    LET pip == {k \in DOMAIN body : body[k].manager = "pip"}
    IN [n \in {body[k].name : k \in pip} |->
           body[CHOOSE k \in pip : body[k].name = n
                                    /\ \A h \in pip : body[h].name = n => h <= k].version]

\* The comparison of env_lockfile_check on an environment's packages and a
\* lock file: its answer and what it reports.  conda packages are compared
\* as sets of "<url>#<md5>" lines, pip packages as name -> version.
env_lockfile_compare(pkgs, body) ==
    LET conda_set == {x \in Range(ListExplicit(pkgs)) : Contains(x, "https")}
        lock_set == {x \in {body[k].url \o "#" \o body[k].hash :
                               k \in {h \in DOMAIN body : body[h].manager = "conda"}} :
                       Contains(x, "https")}
        cd == conda_dict(pkgs)
        ld == lock_dict(body)
        \* len(explicit_files) > 1: a pip explicit file was written, which
        \* generate_explicit_lock_files does when the lock file has a pip entry
        pip_compared == \E k \in DOMAIN body : body[k].manager = "pip"
        pip_differs == IF pip_compared THEN cd # ld ELSE DOMAIN cd # {}
    IN [check |-> conda_set = lock_set /\ ~pip_differs,
        in_env |-> (conda_set \ lock_set)
                      \cup (IF ~pip_differs THEN {}
                            ELSE IF pip_compared THEN DOMAIN cd \ DOMAIN ld ELSE DOMAIN cd),
        in_lock |-> (lock_set \ conda_set)
                      \cup (IF pip_differs /\ pip_compared THEN DOMAIN ld \ DOMAIN cd ELSE {}),
        differing |-> IF pip_differs /\ pip_compared
                      THEN {n \in DOMAIN cd \cap DOMAIN ld : cd[n] # ld[n]} ELSE {}]


\* ------------------------------------------------------------------------
\* State
\* ------------------------------------------------------------------------
VARIABLES
    reqs,          \* the requirements file (manifest)
    reqs_newer,    \* requirements st_mtime > lock file st_mtime
    lockfile,      \* the canonical lock file
    order_file,    \* .ops.channel-order.include
    req_files,     \* .ops.<channel>-environment.txt / -requirements.txt, by name
    seg_files,     \* .ops.lock.<channel>, by channel
    temp_pip_report, \* .temp_pip_report.json exists
    envs,          \* environment name -> its installed packages
    active,        \* the active environment of the caller's shell
    pc,            \* "idle", or the position inside lockfile_generate
    gen,           \* locals of the running lockfile_generate
    outcome,       \* how the last lockfile_generate ended
    attempted,     \* the stages the current run has attempted, with results
    lock_before,   \* the lock file when the current run started
    envs_before,   \* the environment names when the current run started
    calls,         \* resolver create/install calls of the current run
    removed,       \* the environments the last operation removed
    runs,          \* lockfile_generate runs started
    chk,           \* the last call of a pairwise check: its arguments and answer
    stdout         \* sys.stdout of the running process, and what was captured

vars ==
    <<reqs, reqs_newer, lockfile, order_file, req_files, seg_files, temp_pip_report,
      envs, active, pc, gen, outcome, attempted, lock_before, envs_before, calls,
      removed, runs, chk, stdout>>

\* The channels the manifests name, and the requirement files they lead to
Channels == {"defaults", "conda-forge", "bioconda", "pypi"}
pip_channels == {"pypi", "sdist"}
ReqFileNames ==
    {EnvironmentTxt(c) : c \in Channels} \cup {RequirementsTxt(c) : c \in {"pip", "pypi"}}

\* The requirement file a stage of lockfile_generate reads and unlinks
StageFileName(channel) ==
    IF channel \in pip_channels THEN RequirementsTxt(channel) ELSE EnvironmentTxt(channel)

check_env_exists(name) == name \in DOMAIN envs
check_env_active(name) == active = name

TestEnvName(i) == raw_test_env \o "-" \o ToString(i)

\* A choice of scratch environment that is the managed environment itself
ChooseTestEnvManaged(existing) == env_name

\* for i in range(100): test_env = raw + f"-{i}"; break at the first name
\* that does not exist (the last probed name when every one exists)
ChooseTestEnv(existing) ==
    LET free == {i \in 0..(ProbeLimit - 1) : TestEnvName(i) \notin existing}
    IN IF free = {} THEN TestEnvName(ProbeLimit - 1)
       ELSE TestEnvName(CHOOSE i \in free : \A j \in free : i <= j)

Leaked == {n \in DOMAIN envs : n \notin {env_name, base_env}}

NoGen ==
    [regenerate |-> FALSE, test_env |-> "", order_list |-> <<>>, i |-> 0,
     caller |-> "cli", force |-> FALSE]

\* A call of a pairwise check: the arguments it was given ("None" for a
\* result the caller did not pass), how it ended, the upstream checks it ran
\* itself, the files it wrote and what it reported
NoCheck ==
    [fn |-> "none",
     args |-> [die_on_error |-> FALSE, platform |-> platform, reqs_consistent |-> "None",
               lockfile_consistent |-> "None", env_consistent |-> "None",
               reqs_mtime |-> 0, lock_mtime |-> 0],
     result |-> "none", ran |-> {}, wrote |-> {}, returned |-> <<>>,
     report |-> [missing |-> {}, in_env |-> {}, in_lock |-> {}, differing |-> {}]]

\* sys.stdout is the terminal when a command starts; capture_output holds
\* the segments of the pip transcript once pip install has been captured
Terminal == [stream |-> "terminal", capture_output |-> <<>>]

Init ==
    /\ reqs = ReqsDefault
    /\ reqs_newer = TRUE
    /\ lockfile = AbsentFile
    /\ order_file = AbsentFile
    /\ req_files = [f \in ReqFileNames |-> AbsentFile]
    /\ seg_files = [c \in Channels |-> AbsentFile]
    /\ temp_pip_report = FALSE
    /\ envs = [n \in {base_env} |-> {}]
    /\ active = base_env
    /\ pc = "idle"
    /\ gen = NoGen
    /\ outcome = "none"
    /\ attempted = <<>>
    /\ lock_before = AbsentFile
    /\ envs_before = {base_env}
    /\ calls = 0
    /\ removed = {}
    /\ runs = 0
    /\ chk = NoCheck
    /\ stdout = Terminal

\* ------------------------------------------------------------------------
\* The operator's own actions
\* ------------------------------------------------------------------------
\* The manifest is edited by hand (or by reqs add / reqs remove); what the
\* last run left in the history variables is forgotten
EditReqs ==
    /\ pc = "idle"
    /\ \E m \in Manifests \cup {NoReqs} :
          /\ m # reqs
          /\ reqs' = m
          /\ reqs_newer' = TRUE
    /\ gen' = NoGen
    /\ outcome' = "none"
    /\ attempted' = <<>>
    /\ lock_before' = lockfile
    /\ envs_before' = DOMAIN envs
    /\ calls' = 0
    /\ removed' = {}
    /\ UNCHANGED <<lockfile, order_file, req_files, seg_files, temp_pip_report, envs,
                   active, pc, runs>>
    /\ UNCHANGED chk
    /\ UNCHANGED stdout

\* conda activate <managed environment> / conda deactivate
Activate ==
    /\ pc = "idle"
    /\ check_env_exists(env_name)
    /\ active = base_env
    /\ active' = env_name
    /\ removed' = {}
    /\ UNCHANGED <<reqs, reqs_newer, lockfile, order_file, req_files, seg_files,
                   temp_pip_report, envs, pc, gen, outcome, attempted, lock_before,
                   envs_before, calls, runs>>
    /\ UNCHANGED chk
    /\ UNCHANGED stdout

Deactivate ==
    /\ pc = "idle"
    /\ active = env_name
    /\ active' = base_env
    /\ removed' = {}
    /\ UNCHANGED <<reqs, reqs_newer, lockfile, order_file, req_files, seg_files,
                   temp_pip_report, envs, pc, gen, outcome, attempted, lock_before,
                   envs_before, calls, runs>>
    /\ UNCHANGED chk
    /\ UNCHANGED stdout

\* ------------------------------------------------------------------------
\* lockfile_generate
\* ------------------------------------------------------------------------
\* Only the first guard: the requirements file exists
requirements_exist(r) == r.exists

\* The two guards before any file is written: the requirements file exists
\* and passes reqs_check(config, die_on_error=False)
requirements_ok(r) == r.exists /\ reqs_check(r)

\* What follows a stage: the next stage, the copy after the last one, or
\* sys.exit(1) when json_reqs is None
after_stage(json_reqs_ok, i, order_list) ==
    IF ~json_reqs_ok THEN "exit"
    ELSE IF i < Len(order_list) THEN "stages" ELSE "finish"

History ==
    /\ attempted' = <<>>
    /\ lock_before' = lockfile
    /\ envs_before' = DOMAIN envs
    /\ calls' = 0
    /\ removed' = {}
    /\ runs' = runs + 1

\* Entry of lockfile_generate up to the stage loop: the scratch environment
\* name, the manifest guards and create_split_files.
lockfile_generate(regenerate, caller, force) ==
    LET test_env == IF regenerate THEN ChooseTestEnv(DOMAIN envs) ELSE env_name
        split == create_split_files(reqs, order_file, req_files)
        locals == [NoGen EXCEPT !.regenerate = regenerate, !.test_env = test_env,
                                !.caller = caller, !.force = force]
    IN /\ runs < MaxRuns
       /\ regenerate => Cardinality(Leaked) <= MaxLeaked
       /\ History
       /\ IF ~requirements_ok(reqs)
          THEN /\ outcome' = "exit"
               /\ pc' = "idle"
               /\ gen' = locals
               /\ UNCHANGED <<order_file, req_files>>
          ELSE /\ order_file' = split.order_file
               /\ req_files' = split.req_files
               /\ IF split.raised
                  THEN /\ outcome' = "raise"
                       /\ pc' = "idle"
                       /\ gen' = locals
                  ELSE /\ outcome' = "running"
                       /\ pc' = "stages"
                       /\ gen' = [locals EXCEPT !.order_list = split.order_file.body,
                                                 !.i = 1]

\* conda ops lockfile generate / regenerate
LockfileGenerateStart ==
    /\ pc = "idle"
    /\ \E regenerate \in BOOLEAN : lockfile_generate(regenerate, "cli", FALSE)
    /\ stdout' = Terminal    \* a new process
    /\ UNCHANGED <<reqs, reqs_newer, lockfile, seg_files, temp_pip_report, envs, active>>
    /\ UNCHANGED chk

\* The end of one stage: json_reqs is None or not
StageEnds(channel, json_reqs_ok) ==
    LET next == after_stage(json_reqs_ok, gen.i, gen.order_list)
    IN /\ attempted' = Append(attempted, [channel |-> channel, ok |-> json_reqs_ok])
       /\ IF next = "exit"
          THEN /\ pc' = "idle"
               /\ outcome' = "exit"
               /\ UNCHANGED gen
          ELSE /\ pc' = next
               /\ gen' = [gen EXCEPT !.i = IF next = "stages" THEN @ + 1 ELSE @]
               /\ UNCHANGED outcome

\* sys.exit inside env_lock (a listing fails, or the pip versions disagree)
StageExits(channel) ==
    /\ attempted' = Append(attempted, [channel |-> channel, ok |-> FALSE])
    /\ pc' = "idle"
    /\ outcome' = "exit"
    /\ UNCHANGED gen

\* conda_step_env_lock(channel, config, env_name=test_env) inside the loop
CondaStage ==
    /\ pc = "stages"
    /\ gen.order_list[gen.i] \notin pip_channels
    /\ LET channel == gen.order_list[gen.i]
           reqsfile == req_files[EnvironmentTxt(channel)]
           package_list == reqsfile.body
           exists == check_env_exists(gen.test_env)
           pkgs == IF exists THEN envs[gen.test_env] ELSE {}
       IN IF ~reqsfile.exists
          THEN \* open() raises, caught by the loop: json_reqs = None
               /\ StageEnds(channel, FALSE)
               /\ UNCHANGED <<envs, seg_files, calls>>
          ELSE IF package_list = <<>>
          THEN \* return {} : nothing installed, no segment written
               /\ StageEnds(channel, TRUE)
               /\ UNCHANGED <<envs, seg_files, calls>>
          ELSE /\ calls' = calls + 1
               /\ \/ \* install / create returns a non-zero code
                     /\ StageEnds(channel, FALSE)
                     /\ UNCHANGED <<envs, seg_files>>
                  \/ /\ Installable(pkgs, channel, package_list)
                     /\ LET new == Install(pkgs, channel, package_list)
                            lock == env_lock(new, NoPipDict)
                        IN /\ envs' = [n \in DOMAIN envs \cup {gen.test_env} |->
                                          IF n = gen.test_env THEN new ELSE envs[n]]
                           /\ \/ /\ ~lock.err
                                 /\ seg_files' = [seg_files EXCEPT ![channel] =
                                                      File(lock.entries)]
                                 /\ StageEnds(channel, TRUE)
                              \/ \* conda list fails inside env_lock: sys.exit
                                 /\ StageExits(channel)
                                 /\ UNCHANGED seg_files
                              \/ /\ lock.err
                                 /\ StageEnds(channel, FALSE)
                                 /\ UNCHANGED seg_files
    /\ UNCHANGED <<reqs, reqs_newer, lockfile, order_file, req_files, temp_pip_report,
                   active, lock_before, envs_before, removed, runs>>
    /\ UNCHANGED chk
    /\ UNCHANGED stdout

\* sys.stdout = capture_output = StringIO(); with redirect_stdout(
\* capture_output): ... return.  Leaving the with block puts back the stream
\* the block found on entry, which is capture_output itself.
redirect_stdout_return(out) == [out EXCEPT !.stream = "capture_output"]

\* pip_step_env_lock(channel, config, env_name=test_env) inside the loop
PipStage ==
    /\ pc = "stages"
    /\ gen.order_list[gen.i] \in pip_channels
    /\ LET channel == gen.order_list[gen.i]
           reqs_file == req_files[RequirementsTxt(channel)]
           package_list == reqs_file.body
           exists == check_env_exists(gen.test_env)
           pkgs == IF exists THEN envs[gen.test_env] ELSE {}
       IN /\ calls' = calls + 1
          /\ \/ \* conda run pip install returns a non-zero code: return None
                \* inside the with block, before sys.stdout = stdout_backup
                /\ stdout' = redirect_stdout_return(stdout)
                /\ StageEnds(channel, FALSE)
                /\ UNCHANGED <<envs, seg_files, temp_pip_report>>
             \/ /\ exists
                /\ stdout' = [stdout EXCEPT !.capture_output = <<>>]
                /\ reqs_file.exists
                /\ Installable(pkgs, "pypi", package_list)
                /\ LET new == Install(pkgs, "pypi", package_list)
                       pip_dict == extract_pip_info(new \ pkgs)
                          lock == env_lock(new, pip_dict)
                      IN /\ envs' = [envs EXCEPT ![gen.test_env] = new]
                         /\ temp_pip_report' = TRUE
                         /\ \/ /\ ~lock.err
                               /\ seg_files' = [seg_files EXCEPT ![channel] =
                                                    File(lock.entries)]
                               /\ StageEnds(channel, TRUE)
                            \/ /\ StageExits(channel)
                               /\ UNCHANGED seg_files
                            \/ /\ lock.err
                               /\ StageEnds(channel, FALSE)
                               /\ UNCHANGED seg_files
    /\ UNCHANGED <<reqs, reqs_newer, lockfile, order_file, req_files, active,
                   lock_before, envs_before, removed, runs>>
    /\ UNCHANGED chk

\* An env_delete that does not look at the active environment
env_delete_unguarded(es, act, name) ==
    {[envs |-> [n \in DOMAIN es \ {name} |-> es[n]],
      removed |-> {name} \cap DOMAIN es, exit |-> FALSE],
     [envs |-> es, removed |-> {}, exit |-> TRUE]}

\* env_delete(env_name=name): the environments it may leave, what it
\* removed, and whether it exits.  An active environment is left alone with a
\* warning; otherwise conda remove runs and either removes the environment
\* or fails (sys.exit).
env_delete(es, act, name) ==
    IF act = name THEN {[envs |-> es, removed |-> {}, exit |-> FALSE]}
    ELSE {[envs |-> [n \in DOMAIN es \ {name} |-> es[n]],
           removed |-> {name} \cap DOMAIN es, exit |-> FALSE],
          [envs |-> es, removed |-> {}, exit |-> TRUE]}

\* The clean-up loop: for each stage of order_list unlink its requirement
\* file, then its lock segment.  Path.unlink raises on a missing file, which
\* ends the loop with the earlier files already gone.
cleanup(order_list, rf, sf) ==
    LET bad == {k \in DOMAIN order_list :
                  ~rf[StageFileName(order_list[k])].exists \/ ~sf[order_list[k]].exists}
        stop == IF bad = {} THEN 0 ELSE CHOOSE k \in bad : \A h \in bad : k <= h
        upto == IF stop = 0 THEN Len(order_list) ELSE stop - 1
        done == {order_list[k] : k \in 1..upto}
        half == IF stop # 0 /\ rf[StageFileName(order_list[stop])].exists
                THEN {order_list[stop]} ELSE {}
    IN [raised |-> stop # 0,
        req_files |-> [f \in DOMAIN rf |->
                          IF f \in {StageFileName(c) : c \in done \cup half}
                          THEN AbsentFile ELSE rf[f]],
        seg_files |-> [c \in DOMAIN sf |-> IF c \in done THEN AbsentFile ELSE sf[c]]]

\* The lock file lockfile_generate leaves once the loop has ended without a
\* failure: shutil.copy of .ops.lock.<last_good_channel>
last_good_channel(order_list) == order_list[Len(order_list)]

\* After the loop: copy the last good segment over the lock file, clean up,
\* delete the scratch environment.  A run started by sync returns to it.
LockfileGenerateFinish ==
    /\ pc = "finish"
    /\ LET seg == seg_files[last_good_channel(gen.order_list)]
           clean == cleanup(gen.order_list, req_files, seg_files)
           return == IF gen.caller = "sync" THEN "sync_env" ELSE "idle"
       IN IF ~seg.exists
          THEN \* shutil.copy raises FileNotFoundError
               /\ outcome' = "raise"
               /\ pc' = "idle"
               /\ UNCHANGED <<lockfile, reqs_newer, req_files, seg_files, order_file, envs,
                              removed>>
          ELSE /\ lockfile' = File(seg.body)
               /\ reqs_newer' = FALSE
               /\ req_files' = clean.req_files
               /\ seg_files' = clean.seg_files
               /\ IF clean.raised
                  THEN /\ outcome' = "raise"
                       /\ pc' = "idle"
                       /\ UNCHANGED <<order_file, envs, removed>>
                  ELSE /\ order_file' = AbsentFile
                       /\ IF gen.regenerate
                          THEN \E d \in env_delete(envs, active, gen.test_env) :
                                  /\ envs' = d.envs
                                  /\ removed' = d.removed
                                  /\ outcome' = IF d.exit THEN "exit" ELSE "ok"
                                  /\ pc' = IF d.exit THEN "idle" ELSE return
                          ELSE /\ outcome' = "ok"
                               /\ pc' = return
                               /\ UNCHANGED <<envs, removed>>
    /\ UNCHANGED <<reqs, temp_pip_report, active, gen, attempted, lock_before,
                   envs_before, calls, runs>>
    /\ UNCHANGED chk
    /\ UNCHANGED stdout

Next ==
    \/ EditReqs
    \/ LockfileGenerateStart
    \/ CondaStage
    \/ PipStage
    \/ LockfileGenerateFinish

Spec == Init /\ [][Next]_vars

\* ------------------------------------------------------------------------
\* Operations on the managed environment
\* ------------------------------------------------------------------------
\* An install that takes the names of the lock file and the versions the
\* channels offer today
EnvFromLockNames(body, manager) ==
    {Pkg(e.name, Offered(e.name, e.channel), e.channel) :
        e \in {x \in Range(body) : x.manager = manager}}

\* The packages an explicit lock file installs for one package manager
EnvFromLock(body, manager) ==
    {Pkg(e.name, e.version, e.channel) : e \in {x \in Range(body) : x.manager = manager}}

\* Installing the lock file's packages over an environment
Overlay(pkgs, new) == {p \in pkgs : p.name \notin Names(new)} \cup new

\* The environments the conda step and then the pip step of env_create /
\* env_install may leave behind: either step may fail, which exits, and so
\* does a failure to generate the explicit files
install_lock(es, name, body) ==
    LET had == IF name \in DOMAIN es THEN es[name] ELSE {}
        conda == Overlay(had, EnvFromLock(body, "conda"))
        both == Overlay(conda, EnvFromLock(body, "pip"))
        with(pkgs) == [n \in DOMAIN es \cup {name} |-> IF n = name THEN pkgs ELSE es[n]]
    IN IF generate_explicit_lock_files(body).end # "ok" THEN {[envs |-> es, exit |-> TRUE]}
       ELSE {[envs |-> es, exit |-> TRUE], [envs |-> with(both), exit |-> FALSE]}
               \cup (IF EnvFromLock(body, "pip") = {} THEN {}
                     ELSE {[envs |-> with(conda), exit |-> TRUE]})

\* A creation that installs whatever is there
env_create_unguarded(es, lf) == install_lock(es, env_name, lf.body)

\* env_create(config): exits when the environment exists or the lock file
\* does not; otherwise creates the environment from the explicit lock files
env_create(es, lf) ==
    IF env_name \in DOMAIN es \/ ~lf.exists THEN {[envs |-> es, exit |-> TRUE]}
    ELSE install_lock(es, env_name, lf.body)

\* env_install(config): additive install of the lock file into the
\* environment; reading a missing lock file raises
env_install(es, lf) ==
    IF ~lf.exists THEN {[envs |-> es, exit |-> TRUE]}
    ELSE install_lock(es, env_name, lf.body)

\* env_regenerate(config): exits when the environment is active, otherwise
\* env_delete then env_create
env_regenerate(es, act, lf) ==
    IF act = env_name THEN {[envs |-> es, removed |-> {}, exit |-> TRUE]}
    ELSE UNION {IF d.exit THEN {d}
                ELSE {[envs |-> c.envs, removed |-> d.removed, exit |-> c.exit] :
                         c \in env_create(d.envs, lf)} :
                d \in env_delete(es, act, env_name)}

\* An operation that is not a lockfile_generate run starts: the history of
\* the last run is forgotten
OpHistory ==
    /\ gen' = NoGen
    /\ attempted' = <<>>
    /\ lock_before' = lockfile
    /\ envs_before' = DOMAIN envs
    /\ calls' = 0

\* conda ops env delete.  The outcome is "warned" when env_delete returns
\* without running conda remove, "ok" when conda remove ran and returned 0,
\* "exit" when it ran and failed.
EnvDelete ==
    /\ pc = "idle"
    /\ OpHistory
    /\ \E d \in env_delete(envs, active, env_name) :
          /\ envs' = d.envs
          /\ removed' = d.removed
          /\ outcome' = IF d.exit THEN "exit"
                        ELSE IF check_env_active(env_name) THEN "warned" ELSE "ok"
    /\ UNCHANGED <<reqs, reqs_newer, lockfile, order_file, req_files, seg_files,
                   temp_pip_report, active, pc, runs>>
    /\ UNCHANGED chk
    /\ UNCHANGED stdout

\* conda ops env regenerate
EnvRegenerate ==
    /\ pc = "idle"
    /\ OpHistory
    /\ \E d \in env_regenerate(envs, active, lockfile) :
          /\ envs' = d.envs
          /\ removed' = d.removed
          /\ outcome' = IF d.exit THEN "exit" ELSE "ok"
    /\ chk' = NoCheck
    /\ UNCHANGED <<reqs, reqs_newer, lockfile, order_file, req_files, seg_files,
                   temp_pip_report, active, pc, runs, stdout>>

\* consistency_check(config): its return value, but for the two tests of
\* the condarc file
consistency_check(r, lf, newer, es, act) ==
    /\ reqs_check(r)
    /\ lockfile_check(lf)
    /\ act = env_name \/ env_name \in DOMAIN es
    /\ lockfile_reqs_check(r, lf, newer)
    /\ env_name \in DOMAIN es /\ env_lockfile_compare(es[env_name], lf.body).check

\* sync up to the environment part: the checks of the manifest and the lock
\* file, and lockfile_generate when they disagree or force is given
SyncStart ==
    /\ pc = "idle"
    /\ \E regenerate_lockfile, force \in BOOLEAN :
          IF ~reqs_check(reqs)
          THEN \* reqs_check(config, die_on_error=True)
               /\ OpHistory
               /\ outcome' = "exit"
               /\ removed' = {}
               /\ UNCHANGED <<pc, order_file, req_files, runs>>
          ELSE IF ~(lockfile_check(lockfile)
                    /\ lockfile_reqs_check(reqs, lockfile, reqs_newer)) \/ force
          THEN lockfile_generate(regenerate_lockfile, "sync", force)
          ELSE /\ OpHistory
               /\ gen' = [NoGen EXCEPT !.caller = "sync", !.force = force]
               /\ outcome' = "running"
               /\ pc' = "sync_env"
               /\ removed' = {}
               /\ UNCHANGED <<order_file, req_files, runs>>
    /\ stdout' = Terminal    \* a new process
    /\ UNCHANGED <<reqs, reqs_newer, lockfile, seg_files, temp_pip_report, envs, active>>
    /\ UNCHANGED chk

\* The environment part of sync.  env_lockfile_check is given the result of
\* lockfile_check; its second answer (regenerate) is taken as it comes, and
\* unpacking its answer may also raise.  complete is reported as "ok", not
\* complete as "incomplete".
SyncEnv ==
    /\ pc = "sync_env"
    /\ pc' = "idle"
    /\ IF check_env_exists(env_name)
       THEN \/ /\ outcome' = "raise"
               /\ removed' = {}
               /\ UNCHANGED envs
            \/ \E regenerate, input_y \in BOOLEAN :
                  LET env_lockfile_consistent ==
                          /\ lockfile_check(lockfile)
                          /\ env_lockfile_compare(envs[env_name], lockfile.body).check
                  IN
                  IF ~env_lockfile_consistent /\ ~(regenerate \/ gen.force)
                  THEN \E d \in env_install(envs, lockfile) :
                          /\ envs' = d.envs
                          /\ removed' = {}
                          /\ outcome' = IF d.exit THEN "exit" ELSE "ok"
                  ELSE IF gen.force \/ regenerate
                  THEN IF check_env_active(env_name)
                       THEN /\ outcome' = "incomplete"
                            /\ removed' = {}
                            /\ UNCHANGED envs
                       ELSE IF gen.force \/ input_y
                       THEN \E d \in env_regenerate(envs, active, lockfile) :
                               /\ envs' = d.envs
                               /\ removed' = d.removed
                               /\ outcome' = IF d.exit THEN "exit" ELSE "ok"
                       ELSE /\ outcome' = "incomplete"
                            /\ removed' = {}
                            /\ UNCHANGED envs
                  ELSE /\ outcome' = "ok"
                       /\ removed' = {}
                       /\ UNCHANGED envs
       ELSE \E d \in env_create(envs, lockfile) :
               /\ envs' = d.envs
               /\ removed' = {}
               /\ outcome' = IF d.exit THEN "exit" ELSE "ok"
    /\ UNCHANGED <<reqs, reqs_newer, lockfile, order_file, req_files, seg_files,
                   temp_pip_report, active, gen, attempted, lock_before, envs_before,
                   calls, runs>>
    /\ UNCHANGED chk
    /\ UNCHANGED stdout

\* The project as sync, env delete and env regenerate drive it, from either
\* of two manifests
InitOps ==
    /\ reqs \in {ReqsDefault, ReqsForgePip, ReqsPypiChannel}
    /\ reqs_newer = TRUE
    /\ lockfile = AbsentFile
    /\ order_file = AbsentFile
    /\ req_files = [f \in ReqFileNames |-> AbsentFile]
    /\ seg_files = [c \in Channels |-> AbsentFile]
    /\ temp_pip_report = FALSE
    /\ envs = [n \in {base_env} |-> {}]
    /\ active = base_env
    /\ pc = "idle"
    /\ gen = NoGen
    /\ outcome = "none"
    /\ attempted = <<>>
    /\ lock_before = AbsentFile
    /\ envs_before = {base_env}
    /\ calls = 0
    /\ removed = {}
    /\ runs = 0
    /\ chk = NoCheck
    /\ stdout = Terminal

\* A check that asks only whether the environment is active
env_check_active_only(es, act) == act = env_name

\* env_check(config, die_on_error): the managed environment is active or
\* exists
env_check(es, act) == act = env_name \/ env_name \in DOMAIN es

\* conda ops env check: env_check(config, die_on_error), called on a project
\* no check has reported on yet
EnvCheck ==
    /\ pc = "idle" /\ chk = NoCheck
    /\ \E die_on_error \in BOOLEAN :
          chk' = [NoCheck EXCEPT !.fn = "env_check",
                                 !.args.die_on_error = die_on_error,
                                 !.result = Answer(env_check(envs, active), die_on_error)]
    /\ UNCHANGED <<reqs, reqs_newer, lockfile, order_file, req_files, seg_files,
                   temp_pip_report, envs, active, pc, gen, outcome, attempted,
                   lock_before, envs_before, calls, removed, runs, stdout>>

NextOps ==
    \/ EnvCheck
    \/ Activate
    \/ Deactivate
    \/ EnvDelete
    \/ EnvRegenerate
    \/ SyncStart
    \/ CondaStage
    \/ PipStage
    \/ LockfileGenerateFinish
    \/ SyncEnv

SpecOps == InitOps /\ [][NextOps]_vars

\* C10: no operation deletes the managed environment while it is active:
\* env_delete leaves it with a warning, env_regenerate exits before deleting
\* anything, and sync returns incomplete without regenerating it.
C10_ActiveEnvNeverDeleted ==
    [][(check_env_active(env_name) /\ check_env_exists(env_name)) =>
          /\ env_name \in DOMAIN envs'
          /\ env_name \notin removed'
          /\ EnvDelete => (UNCHANGED envs /\ outcome' = "warned")
          /\ EnvRegenerate => (UNCHANGED envs /\ outcome' = "exit")
          /\ (SyncEnv /\ envs' # envs) => removed' = {}]_vars

C10_Witness ==
    /\ check_env_active(env_name)
    /\ check_env_exists(env_name)
    /\ pc = "idle"
    /\ outcome = "incomplete"
    /\ gen.caller = "sync"

\* ------------------------------------------------------------------------
\* The pairwise checks over drawn manifests, lock files and environments
\* ------------------------------------------------------------------------
\* The environments the checks are run on: python 1.2 or 1.3, with pylint
\* from conda-forge, with flask 2.0 or 2.1 from pip, and flask alone
CheckEnvs ==
    LET Py12 == Pkg("python", "1.2", "pkgs/main")
    IN {{Py12}, {Pkg("python", "1.3", "pkgs/main")},
        {Py12, Pkg("pylint", "2.0", "conda-forge")},
        {Py12, Pkg("flask", "2.0", "pypi")}, {Py12, Pkg("flask", "2.1", "pypi")},
        {Pkg("flask", "2.0", "pypi")}}

\* The lock files the checks are run on: none, an empty list, the locks of
\* the environments, and hand-edited ones (a url removed, a version changed
\* under its url, a manager changed, another platform's packages)
CheckLocks ==
    LET Py12 == Pkg("python", "1.2", "pkgs/main")
        \* the lock entry env_lock writes for a conda package listed under plat
        CondaEntry(p, plat) ==
            LockEntry(p.name, p.version, p.channel, "conda",
                      BaseUrl(p) \o "/" \o plat \o "/" \o DistName(p) \o ".conda", Md5(p))
        \* the lock file env_lock writes for an environment whose pip
        \* packages pip has just installed
        LockOf(pkgs) ==
            File(env_lock(pkgs, extract_pip_info({p \in pkgs : p.channel = "pypi"})).entries)
    IN {AbsentFile, File(<<>>)}
         \cup {LockOf(e) : e \in CheckEnvs}
         \cup {File(<<[CondaEntry(Py12, platform) EXCEPT !.url = None]>>),
               File(<<[CondaEntry(Py12, platform) EXCEPT !.version = "1.3"]>>),
               File(<<[CondaEntry(Py12, platform) EXCEPT !.manager = "pip"]>>),
               File(<<CondaEntry(Py12, "osx-64")>>),
               File(<<CondaEntry(Py12, "osx-64"),
                      CondaEntry(Pkg("pylint", "2.0", "conda-forge"), platform)>>),
               File(<<CondaEntry(Py12, platform),
                      from_conda_list(Pkg("flask", "2.0", "pypi"))>>)}

InitChecks ==
    /\ reqs \in {NoReqs, ReqsDefault, ReqsForgePip, ReqsDuplicate,
                 Reqs(<<"defaults">>, <<PipSection(<<PipDep("flask", "2.0")>>),
                                        CondaDep("", "python", "1.2")>>)}
    /\ reqs_newer \in BOOLEAN
    /\ lockfile \in CheckLocks
    /\ order_file = AbsentFile
    /\ req_files = [f \in ReqFileNames |-> AbsentFile]
    /\ seg_files = [c \in Channels |-> AbsentFile]
    /\ temp_pip_report = FALSE
    /\ \E e \in CheckEnvs \cup {{}} :
          envs = IF e = {} THEN [n \in {base_env} |-> {}]
                 ELSE [n \in {base_env, env_name} |-> IF n = env_name THEN e ELSE {}]
    /\ active = base_env
    /\ pc = "idle"
    /\ gen = NoGen
    /\ outcome = "none"
    /\ attempted = <<>>
    /\ lock_before = lockfile
    /\ envs_before = DOMAIN envs
    /\ calls = 0
    /\ removed = {}
    /\ runs = 0
    /\ chk = NoCheck
    /\ stdout = Terminal

\* lockfile_check(config, die_on_error, platform).  A check is called on a
\* project no check has reported on yet: the checks change nothing but the
\* report, so a later call sees the same project.
LockfileCheck ==
    /\ pc = "idle" /\ chk = NoCheck
    /\ \E die_on_error \in BOOLEAN, plat \in {platform, "osx-64"} :
          chk' = [NoCheck EXCEPT
                    !.fn = "lockfile_check",
                    !.args.die_on_error = die_on_error,
                    !.args.platform = plat,
                    !.result = lockfile_check_call(lockfile, plat, die_on_error)]
    /\ UNCHANGED <<reqs, reqs_newer, lockfile, order_file, req_files, seg_files,
                   temp_pip_report, envs, active, pc, gen, outcome, attempted,
                   lock_before, envs_before, calls, removed, runs, stdout>>

\* consistency_check(config, die_on_error=False) as a call: reqs_check
\* returns, then lockfile_check raises on a lock file that is not JSON
consistency_check_call(r, lf, newer, es, act) ==
    IF lockfile_check_call(lf, platform, FALSE) = "raise" THEN "raise"
    ELSE Answer(consistency_check(r, lf, newer, es, act), FALSE)

\* conda ops status
ConsistencyCheck ==
    /\ pc = "idle" /\ chk = NoCheck
    /\ chk' = [NoCheck EXCEPT
                 !.fn = "consistency_check",
                 !.result = consistency_check_call(reqs, lockfile, reqs_newer, envs, active)]
    /\ UNCHANGED <<reqs, reqs_newer, lockfile, order_file, req_files, seg_files,
                   temp_pip_report, envs, active, pc, gen, outcome, attempted,
                   lock_before, envs_before, calls, removed, runs, stdout>>

\* lockfile_check and consistency_check on the lock files of the tests and
\* on one that is not JSON, with and without the managed environment, active
\* or not
InitLockfileCheck ==
    /\ reqs = ReqsDefault
    /\ reqs_newer \in BOOLEAN
    /\ lockfile \in CheckLocks \cup {Unparsable}
    /\ order_file = AbsentFile
    /\ req_files = [f \in ReqFileNames |-> AbsentFile]
    /\ seg_files = [c \in Channels |-> AbsentFile]
    /\ temp_pip_report = FALSE
    /\ \E e \in CheckEnvs \cup {{}} :
          envs = IF e = {} THEN [n \in {base_env} |-> {}]
                 ELSE [n \in {base_env, env_name} |-> IF n = env_name THEN e ELSE {}]
    /\ active \in {base_env, env_name} \cap DOMAIN envs
    /\ pc = "idle"
    /\ gen = NoGen
    /\ outcome = "none"
    /\ attempted = <<>>
    /\ lock_before = lockfile
    /\ envs_before = DOMAIN envs
    /\ calls = 0
    /\ removed = {}
    /\ runs = 0
    /\ chk = NoCheck
    /\ stdout = Terminal

SpecLockfileCheck == InitLockfileCheck /\ [][LockfileCheck \/ ConsistencyCheck]_vars

\* A comparison of modification times that never finds the manifest newer
requirements_never_newer(reqs_mtime, lock_mtime) == FALSE

\* requirements_file.stat().st_mtime <= lock_file.stat().st_mtime fails
requirements_newer(reqs_mtime, lock_mtime) == ~(reqs_mtime <= lock_mtime)

\* An upstream result that is computed whatever the caller passed in
Recomputed(given, name, computed) == [value |-> computed, ran |-> {name}]

\* `if x_consistent is None: x_consistent = x_check(...)`: the result the
\* caller passed in, else the one computed now
Upstream(given, name, computed) ==
    IF given = "None" THEN [value |-> computed, ran |-> {name}]
    ELSE [value |-> given = "True", ran |-> {}]

\* lockfile_reqs_check(config, reqs_consistent, lockfile_consistent,
\* die_on_error) with the modification times in a: how it ends, the checks it
\* ran ("compare" for its own comparison) and the packages it reports missing
lockfile_reqs_check_call(r, lf, a) ==
    LET rc == Upstream(a.reqs_consistent, "reqs_check", reqs_check(r))
        rc_exit == a.die_on_error /\ rc.ran # {} /\ ~rc.value
        lc == Upstream(a.lockfile_consistent, "lockfile_check", lockfile_check(lf))
        lc_exit == a.die_on_error /\ lc.ran # {} /\ ~lc.value
        compare == rc.value /\ lc.value
        missing == missing_packages(r, lf.body)
        check == /\ compare
                 /\ ~requirements_newer(a.reqs_mtime, a.lock_mtime)
                 /\ missing = {}
    IN IF rc_exit THEN [result |-> "exit", ran |-> rc.ran, missing |-> {}]
       ELSE IF lc_exit THEN [result |-> "exit", ran |-> rc.ran \cup lc.ran, missing |-> {}]
       ELSE IF ~compare
       THEN [result |-> Answer(FALSE, a.die_on_error), ran |-> rc.ran \cup lc.ran,
             missing |-> {}]
       ELSE IF ~r.exists \/ ~lf.exists \/ env_split(r.deps, get_channel_order(r.order)).err
       THEN \* stat() or open() of a missing file, or env_split, raises
            [result |-> "raise", ran |-> rc.ran \cup lc.ran, missing |-> {}]
       ELSE [result |-> Answer(check, a.die_on_error),
             ran |-> rc.ran \cup lc.ran \cup {"compare"}, missing |-> missing]

LockfileReqsCheck ==
    /\ pc = "idle" /\ chk = NoCheck
    /\ \E die_on_error \in BOOLEAN, rc, lc \in {"None", "True", "False"},
          reqs_mtime, lock_mtime \in 0..MaxTime :
          /\ requirements_newer(reqs_mtime, lock_mtime) = reqs_newer
          /\ LET a == [NoCheck.args EXCEPT !.die_on_error = die_on_error,
                                           !.reqs_consistent = rc,
                                           !.lockfile_consistent = lc,
                                           !.reqs_mtime = reqs_mtime,
                                           !.lock_mtime = lock_mtime]
                 call == lockfile_reqs_check_call(reqs, lockfile, a)
             IN chk' = [NoCheck EXCEPT !.fn = "lockfile_reqs_check",
                                       !.args = a,
                                       !.result = call.result,
                                       !.ran = call.ran,
                                       !.report.missing = call.missing]
    /\ UNCHANGED <<reqs, reqs_newer, lockfile, order_file, req_files, seg_files,
                   temp_pip_report, envs, active, pc, gen, outcome, attempted,
                   lock_before, envs_before, calls, removed, runs, stdout>>

\* env_lockfile_check(config, env_consistent, lockfile_consistent,
\* die_on_error): how it ends, the checks and listings it ran ("compare" for
\* its own comparison), the files it wrote and what it reports.  conda list
\* fails on an environment that does not exist.
env_lockfile_check_call(es, act, lf, a) ==
    LET lc == Upstream(a.lockfile_consistent, "lockfile_check", lockfile_check(lf))
        ec == Upstream(a.env_consistent, "env_check", env_check(es, act))
        stop(ran) == [result |-> Answer(FALSE, a.die_on_error), ran |-> ran, wrote |-> {},
                      report |-> NoCheck.report]
        cmp == env_lockfile_compare(es[env_name], lf.body)
        explicit == generate_explicit_lock_files(lf.body)
    IN IF ~lc.value THEN stop(lc.ran)
       ELSE IF ~ec.value THEN stop(lc.ran \cup ec.ran)
       ELSE IF env_name \notin DOMAIN es THEN stop(lc.ran \cup ec.ran \cup {"list"})
       ELSE [result |-> IF explicit.end = "ok" THEN Answer(cmp.check, a.die_on_error)
                        ELSE explicit.end,
             ran |-> lc.ran \cup ec.ran \cup {"list", "compare"},
             wrote |-> DOMAIN explicit.text,
             report |-> [NoCheck.report EXCEPT !.in_env = cmp.in_env,
                                               !.in_lock = cmp.in_lock,
                                               !.differing = cmp.differing]]

\* A caller passes lockfile_consistent=True only for a lock file that
\* lockfile_check has passed
EnvLockfileCheck ==
    /\ pc = "idle" /\ chk = NoCheck
    /\ \E die_on_error \in BOOLEAN, ec, lc \in {"None", "True", "False"} :
          /\ lc = "True" => lockfile_check(lockfile)
          /\ LET a == [NoCheck.args EXCEPT !.die_on_error = die_on_error,
                                           !.env_consistent = ec,
                                           !.lockfile_consistent = lc]
                 call == env_lockfile_check_call(envs, active, lockfile, a)
             IN chk' = [NoCheck EXCEPT !.fn = "env_lockfile_check",
                                       !.args = a,
                                       !.result = call.result,
                                       !.ran = call.ran,
                                       !.wrote = call.wrote,
                                       !.report = call.report]
    /\ UNCHANGED <<reqs, reqs_newer, lockfile, order_file, req_files, seg_files,
                   temp_pip_report, envs, active, pc, gen, outcome, attempted,
                   lock_before, envs_before, calls, removed, runs, stdout>>

\* conda ops env create
EnvCreate ==
    /\ pc = "idle"
    /\ OpHistory
    /\ \E d \in env_create(envs, lockfile) :
          /\ envs' = d.envs
          /\ outcome' = IF d.exit THEN "exit" ELSE "ok"
    /\ removed' = {}
    /\ chk' = NoCheck
    /\ UNCHANGED <<reqs, reqs_newer, lockfile, order_file, req_files, seg_files,
                   temp_pip_report, active, pc, runs, stdout>>

NextChecks ==
    \/ LockfileCheck
    \/ LockfileReqsCheck
    \/ EnvLockfileCheck
    \/ EnvCreate
    \/ EnvRegenerate

SpecChecks == InitChecks /\ [][NextChecks]_vars

\* C14: lockfile_check returns True if and only if the lock file exists,
\* every entry has a url and passes check_consistency, and at least one
\* entry is for the requested platform (so not for a lock file without
\* entries).
C14_LockfileCheckIff ==
    chk.fn = "lockfile_check" =>
        (chk.result = "True" <=>
            /\ lockfile.exists
            /\ \A k \in DOMAIN lockfile.body :
                  lockfile.body[k].url # None /\ check_consistency(lockfile.body[k])
            /\ \E k \in DOMAIN lockfile.body :
                  ForPlatform(lockfile.body[k], chk.args.platform))

\* The specs of the manifest, conda and pip
AllSpecs(r) ==
    Range(SelectSeq(CondaSpecs(r.deps), LAMBDA d : d.kind # "pipdict")) \cup Range(PipSpecs(r.deps))

\* The call compared the manifest with the lock file: both are valid and
\* the caller passed in no result that says otherwise
Compared ==
    /\ chk.fn = "lockfile_reqs_check"
    /\ reqs_check(reqs) /\ lockfile_check(lockfile)
    /\ chk.args.reqs_consistent # "False" /\ chk.args.lockfile_consistent # "False"

C13_NotEarlierFails ==
    (chk.fn = "lockfile_reqs_check" /\ chk.args.reqs_mtime >= chk.args.lock_mtime) =>
        chk.result # "True"

\* C13, amended: whenever the manifest's modification time is later than the
\* lock file's, lockfile_reqs_check returns False, or exits when die_on_error
\* is given; equal times do not fail the check.
C13_NewerManifestFails ==
    (chk.fn = "lockfile_reqs_check" /\ reqs.exists /\ lockfile.exists
        /\ chk.args.reqs_mtime > chk.args.lock_mtime) =>
        chk.result = (IF chk.args.die_on_error THEN "exit" ELSE "False")

C13_Witness ==
    /\ Compared /\ chk.args.reqs_mtime > chk.args.lock_mtime
    /\ chk.report.missing = {} /\ "compare" \in chk.ran
    /\ chk.result = "False"

\* The call compared the environment with the lock file: the lock file is
\* valid, the environment exists and the caller passed in no result that
\* says otherwise
EnvCompared ==
    /\ chk.fn = "env_lockfile_check"
    /\ lockfile_check(lockfile) /\ check_env_exists(env_name)
    /\ chk.args.lockfile_consistent # "False" /\ chk.args.env_consistent # "False"

C16_VersionMismatchReported ==
    EnvCompared =>
        \A p \in envs[env_name] : \A k \in DOMAIN lockfile.body :
            (lockfile.body[k].name = p.name /\ lockfile.body[k].version # p.version) =>
                /\ chk.result = Answer(FALSE, chk.args.die_on_error)
                /\ p.name \in chk.report.differing
                /\ \A x \in chk.report.in_env \cup chk.report.in_lock :
                      ~Contains(x, p.name)

C18_ChecksChangeNothing ==
    [][(/\ chk' # chk
        /\ chk'.fn \in {"lockfile_check", "lockfile_reqs_check", "env_lockfile_check"}
        /\ chk'.fn = "lockfile_reqs_check" =>
               /\ chk'.args.reqs_consistent # "None"
               /\ chk'.args.lockfile_consistent # "None")
        => /\ reqs' = reqs /\ lockfile' = lockfile /\ envs' = envs
           /\ chk'.wrote \cap {"requirements", "lockfile"} = {}]_vars

C18_Witness ==
    /\ chk.fn = "env_lockfile_check"
    /\ chk.result = "False"
    /\ "pip_explicit_lockfile" \in chk.wrote

\* C19: a pairwise check whose upstream result, passed in or computed, is
\* False returns False without its comparison (lockfile_reqs_check on
\* reqs_consistent or lockfile_consistent, env_lockfile_check on
\* lockfile_consistent or env_consistent), exits instead when die_on_error is
\* given, and does not compute an upstream result that was passed in.
C19_UpstreamFalseShortCircuits ==
    LET \* the upstream result a check goes by: passed in, else computed
        Effective(given, computed) == IF given = "None" THEN computed ELSE given = "True"
        lc == Effective(chk.args.lockfile_consistent, lockfile_check(lockfile))
        rc == Effective(chk.args.reqs_consistent, reqs_check(reqs))
        ec == Effective(chk.args.env_consistent, env_check(envs, active))
        stopped == /\ "compare" \notin chk.ran
                   /\ chk.result = (IF chk.args.die_on_error THEN "exit" ELSE "False")
    IN /\ (chk.fn = "lockfile_reqs_check" /\ (~rc \/ ~lc)) => stopped
       /\ (chk.fn = "env_lockfile_check" /\ (~lc \/ ~ec)) => stopped
       /\ chk.args.reqs_consistent # "None" => "reqs_check" \notin chk.ran
       /\ chk.args.lockfile_consistent # "None" => "lockfile_check" \notin chk.ran
       /\ chk.args.env_consistent # "None" => "env_check" \notin chk.ran

C19_Witness ==
    /\ chk.fn = "env_lockfile_check"
    /\ chk.args.lockfile_consistent = "False" /\ lockfile_check(lockfile)
    /\ check_env_exists(env_name)
    /\ chk.args.die_on_error /\ chk.result = "exit" /\ chk.ran = {}

\* C11: whenever sync completes, forced or not, consistency_check returns
\* True afterwards: the manifest is valid, the lock file is valid and matches
\* the manifest, the environment exists and matches the lock file.
C11_SyncLeavesConsistent ==
    [][(SyncEnv /\ outcome' = "ok")
        => consistency_check(reqs', lockfile', reqs_newer', envs', active')]_vars

\* ------------------------------------------------------------------------
\* reqs_add and reqs_remove on the manifest of reqs_create (commands_reqs.py)
\* ------------------------------------------------------------------------
\* sorted() on the spec strings "channel::name": a qualified spec of
\* bioconda, conda-forge or defaults sorts before the bare names
sorted(specs) ==
    LET chans == <<"bioconda", "conda-forge", "defaults", "">>
        pos(seq, x) == CHOOSE k \in DOMAIN seq : seq[k] = x
        key(d) == pos(chans, d.chan) * (Len(PkgOrder) + 1) + pos(PkgOrder, d.name)
    IN SortSeq(specs, LAMBDA a, b : key(a) < key(b))

\* A conflict test that finds only the spec written exactly as the argument
check_package_in_list_same_text(package, package_list) ==
    {d \in Range(package_list) : d.chan = package.chan /\ d.name = package.name
                                    /\ d.ver = package.ver}

\* check_package_in_list(package, package_list): the entries of the list
\* whose MatchSpec name is the argument's
check_package_in_list(package, package_list) ==
    {d \in Range(package_list) : d.name = package.name}

\* reqs_add([package], channel): the manifest it writes, or raised when it
\* writes none.  package is the MatchSpec of the argument, which may carry a
\* channel of its own; channel is "" for None.  A {"pip": []} section that an
\* earlier call left is not popped, and MatchSpec raises on it.
reqs_add(r, package, channel) ==
    LET pip == PipSpecs(r.deps)
        deps == CondaSpecs(r.deps)
        kept == SelectSeq(deps, LAMBDA d : d \notin check_package_in_list(package, deps))
        pip_kept == SelectSeq(pip, LAMBDA d : d \notin check_package_in_list(package, pip))
        new_deps == IF channel = "" THEN sorted(Append(kept, package))
                    ELSE IF channel = "pip" THEN kept
                    ELSE sorted(Append(kept, [package EXCEPT !.chan = channel]))
        new_pip == IF channel = "pip"
                   THEN sorted(Append(pip_kept, PipDep(package.name, package.ver)))
                   ELSE pip_kept
        new_order == IF channel \in {"", "pip"} \/ channel \in Range(r.order) THEN r.order
                     ELSE Append(r.order, channel)
    IN IF \E k \in DOMAIN deps : deps[k].kind = "pipdict"
       THEN [raised |-> TRUE, reqs |-> r]
       ELSE [raised |-> FALSE,
             reqs |-> [r EXCEPT !.order = new_order,
                                !.deps = IF pip # <<>> \/ channel = "pip"
                                         THEN <<PipSection(new_pip)>> \o new_deps
                                         ELSE new_deps]]

\* reqs_remove([package]): the manifests it may write, or raised when it
\* writes none.  A spec goes when its text after the channel starts with the
\* argument.  Each loop removes from the list it walks, so the entry after a
\* removed one is skipped; the list comes from list(set(...)), whose order
\* is any order.  The argument is first added to the pip list.  The channels
\* no spec uses any more leave channel-order, defaults stays.  The pip loop
\* reads dep_check, which is unbound when the manifest has no conda spec.
reqs_remove(r, package) ==
    LET pip == PipSpecs(r.deps)
        deps == CondaSpecs(r.deps)
        text(d) == d.name \o (IF d.ver = "" THEN "" ELSE "==" \o d.ver)
        arg == (IF package.chan = "" THEN "" ELSE package.chan \o "::") \o text(package)
        startswith(t) == Len(arg) <= Len(t) /\ SubSeq(t, 1, Len(arg)) = arg
        pip_text(d) == (IF d.chan = "" THEN "" ELSE d.chan \o "::") \o text(d)
        \* for dep in deps: if match: deps.remove(dep)
        RECURSIVE walk(_, _, _)
        walk(list, k, in_pip) ==
            IF k > Len(list) THEN list
            ELSE IF startswith(IF in_pip THEN pip_text(list[k]) ELSE text(list[k]))
                 THEN walk(RemoveAt(list, k), k + 1, in_pip)
                 ELSE walk(list, k + 1, in_pip)
        \* list(set(list)): every order when the order can matter
        orders(list, in_pip) ==
            IF Cardinality({k \in DOMAIN list :
                              startswith(IF in_pip THEN pip_text(list[k])
                                         ELSE text(list[k]))}) <= 1
            THEN {list}
            ELSE {[k \in DOMAIN list |-> list[q[k]]] : q \in Permutations(DOMAIN list)}
        as_pip == [package EXCEPT !.kind = "pip"]
        pip_list == IF as_pip \in Range(pip) THEN pip ELSE Append(pip, as_pip)
        written(kept, pip_kept) ==
            LET channel_in_use == {kept[k].chan : k \in DOMAIN kept} \ {""}
            IN [raised |-> FALSE,
                reqs |-> [r EXCEPT
                            !.order = SelectSeq(r.order, LAMBDA c : c = "defaults"
                                                            \/ c \in channel_in_use),
                            !.deps = IF pip_kept # <<>>
                                     THEN <<PipSection(sorted(pip_kept))>> \o sorted(kept)
                                     ELSE sorted(kept)]]
    IN IF \E k \in DOMAIN deps : deps[k].kind = "pipdict"
       THEN {[raised |-> TRUE, reqs |-> r]}
       ELSE IF pip # <<>> /\ deps = <<>>
       THEN {[raised |-> TRUE, reqs |-> r]}
       ELSE IF pip = <<>>
       THEN {written(walk(o, 1, FALSE), <<>>) : o \in orders(deps, FALSE)}
       ELSE {written(walk(o, 1, FALSE), walk(po, 1, TRUE)) :
                o \in orders(deps, FALSE), po \in orders(pip_list, TRUE)}

\* The package arguments drawn: bare names, a name with its channel written
\* in the spec, a pinned version, and a name that starts with another
PackageArgs ==
    {CondaDep(c, n, "") : c \in {"", "conda-forge"}, n \in {"flask", "pylint", "python"}}
        \cup {CondaDep("", "flask", "2.0"), CondaDep("", "pylint-venv", "")}

\* conda ops reqs add <package> [-c channel]
ReqsAdd ==
    /\ pc = "idle"
    /\ \E package \in PackageArgs, channel \in {"", "pip", "conda-forge", "bioconda"} :
          /\ package.chan # "" => channel = ""
          /\ LET call == reqs_add(reqs, package, channel)
             IN /\ reqs' = call.reqs
                /\ reqs_newer' = IF call.raised THEN reqs_newer ELSE TRUE
                /\ outcome' = IF call.raised THEN "raise" ELSE "ok"
    /\ UNCHANGED <<lockfile, order_file, req_files, seg_files, temp_pip_report, envs,
                   active, pc, gen, attempted, lock_before, envs_before, calls, removed,
                   runs, chk, stdout>>

\* conda ops reqs remove <package>
ReqsRemove ==
    /\ pc = "idle"
    /\ \E package \in PackageArgs :
          \E call \in reqs_remove(reqs, package) :
             /\ reqs' = call.reqs
             /\ reqs_newer' = IF call.raised THEN reqs_newer ELSE TRUE
             /\ outcome' = IF call.raised THEN "raise" ELSE "ok"
    /\ UNCHANGED <<lockfile, order_file, req_files, seg_files, temp_pip_report, envs,
                   active, pc, gen, attempted, lock_before, envs_before, calls, removed,
                   runs, chk, stdout>>

\* The project after reqs_create: channel-order [defaults], dependencies
\* [pip, python]
InitReqs ==
    /\ reqs = Reqs(<<"defaults">>, <<CondaDep("", "pip", ""), CondaDep("", "python", "")>>)
    /\ reqs_newer = TRUE
    /\ lockfile = AbsentFile
    /\ order_file = AbsentFile
    /\ req_files = [f \in ReqFileNames |-> AbsentFile]
    /\ seg_files = [c \in Channels |-> AbsentFile]
    /\ temp_pip_report = FALSE
    /\ envs = [n \in {base_env} |-> {}]
    /\ active = base_env
    /\ pc = "idle"
    /\ gen = NoGen
    /\ outcome = "none"
    /\ attempted = <<>>
    /\ lock_before = AbsentFile
    /\ envs_before = {base_env}
    /\ calls = 0
    /\ removed = {}
    /\ runs = 0
    /\ chk = NoCheck
    /\ stdout = Terminal

SpecReqs == InitReqs /\ [][ReqsAdd \/ ReqsRemove]_vars

\* C20: after any sequence of reqs_add and reqs_remove from the manifest of
\* reqs_create, every dependency written with a channel has that channel in
\* channel-order.
C20_QualifiedChannelsInOrder ==
    \A k \in DOMAIN reqs.deps :
        (reqs.deps[k].kind = "conda" /\ reqs.deps[k].chan # "") =>
            reqs.deps[k].chan \in Range(reqs.order)

\* ------------------------------------------------------------------------
\* The scratch environment name over crowded sets of environments
\* ------------------------------------------------------------------------
\* Scratch environments left by earlier runs: the first k suffixes, or all
\* of them but one
TakenSuffixes ==
    {0..(k - 1) : k \in 0..ProbeLimit}
        \cup {(0..(ProbeLimit - 1)) \ {j} : j \in 0..(ProbeLimit - 1)}

InitProbe ==
    /\ reqs = ReqsDefault
    /\ reqs_newer = TRUE
    /\ lockfile = AbsentFile
    /\ order_file = AbsentFile
    /\ req_files = [f \in ReqFileNames |-> AbsentFile]
    /\ seg_files = [c \in Channels |-> AbsentFile]
    /\ temp_pip_report = FALSE
    /\ \E taken \in TakenSuffixes :
          envs = [n \in {base_env} \cup {TestEnvName(i) : i \in taken} |-> {}]
    /\ active = base_env
    /\ pc = "idle"
    /\ gen = NoGen
    /\ outcome = "none"
    /\ attempted = <<>>
    /\ lock_before = AbsentFile
    /\ envs_before = DOMAIN envs
    /\ calls = 0
    /\ removed = {}
    /\ runs = 0
    /\ chk = NoCheck
    /\ stdout = Terminal

\* The head of lockfile_generate(regenerate=True): the probe for the name
ProbeTestEnv ==
    /\ pc = "idle"
    /\ pc' = "probed"
    /\ gen' = [NoGen EXCEPT !.regenerate = TRUE, !.test_env = ChooseTestEnv(DOMAIN envs)]
    /\ UNCHANGED <<reqs, reqs_newer, lockfile, order_file, req_files, seg_files,
                   temp_pip_report, envs, active, outcome, attempted, lock_before,
                   envs_before, calls, removed, runs>>
    /\ UNCHANGED chk
    /\ UNCHANGED stdout

NextProbe == ProbeTestEnv

SpecProbe == InitProbe /\ [][NextProbe]_vars

\* C7: in clean-slate mode the scratch environment name never names an
\* environment that exists when the run starts, whatever environments
\* exist (all of the suffixes 0..99 taken included).
C7_ScratchNameIsFresh ==
    pc = "probed" => gen.test_env \notin envs_before

\* ------------------------------------------------------------------------
\* Properties of lockfile_generate
\* ------------------------------------------------------------------------
Ended == pc = "idle" /\ outcome \in {"ok", "exit", "raise"}

\* every stage of the order was attempted and none failed
AllStagesSucceeded ==
    /\ gen.order_list # <<>>
    /\ Len(attempted) = Len(gen.order_list)
    /\ \A k \in DOMAIN attempted : attempted[k].ok

\* the run halted at stage i (1-based position i >= 2) after i-1 successes
HaltedAfterSuccess ==
    /\ Ended
    /\ Len(attempted) >= 2
    /\ ~attempted[Len(attempted)].ok
    /\ \A k \in 1..(Len(attempted) - 1) : attempted[k].ok

\* C1: when the stage of the i-th channel (i >= 1) fails after every earlier
\* stage succeeded, the lock file at the end of the run equals the segment
\* produced by stage i-1.
C1_LockIsPreviousSegment ==
    LET prev == seg_files[attempted[Len(attempted) - 1].channel]
    IN (HaltedAfterSuccess /\ prev.exists) => lockfile = prev

\* The names and versions a lock file or an environment holds
NameVersions(list) == {[name |-> x.name, version |-> x.version] : x \in list}

\* C2: when every stage succeeds the lock file is overwritten with the
\* segment of the last stage in channel order, the full enumeration of the
\* working environment after the final install.
C2_LockIsFullEnumeration ==
    [][(pc = "finish" /\ AllStagesSucceeded /\ check_env_exists(gen.test_env)) =>
          /\ lockfile'.exists
          /\ NameVersions(Range(lockfile'.body)) = NameVersions(envs[gen.test_env])]_vars

\* The stages the manifest derives: the conda channels of channel-order
\* (defaults first when absent), then the pip stage when the manifest has a
\* pip section
DerivedStages(r) ==
    LET channel_order == get_channel_order(r.order)
    IN IF PipIsDict(env_split(r.deps, channel_order).cd) THEN channel_order
       ELSE SubSeq(channel_order, 1, Len(channel_order) - 1)

IsPrefix(a, b) == Len(a) <= Len(b) /\ a = SubSeq(b, 1, Len(a))
AttemptedChannels == [k \in DOMAIN attempted |-> attempted[k].channel]

\* C3: the stages are attempted one at a time in exactly the derived channel
\* order (the conda channels of channel-order, then the pip stage last), a
\* stage only after every earlier stage succeeded; after a failed stage no
\* later stage is attempted.
C3_StagesInOrderHaltOnFailure ==
    (outcome # "none" /\ gen.order_list # <<>>) =>
        /\ IsPrefix(AttemptedChannels, DerivedStages(reqs))
        /\ \A k \in DOMAIN attempted : k < Len(attempted) => attempted[k].ok
        /\ pc = "stages" => (gen.i = Len(attempted) + 1
                             /\ \A k \in DOMAIN attempted : attempted[k].ok)
        /\ (Ended /\ outcome = "ok") => AttemptedChannels = DerivedStages(reqs)

\* A stage of the run's order whose requirement list was empty
HasEmptyStage ==
    \E c \in Range(gen.order_list) :
        /\ c \notin pip_channels
        /\ env_split(reqs.deps, get_channel_order(reqs.order)).cd[c] = <<>>

\* C4: a channel with no packages is a successful stage: when every
\* non-empty stage succeeds the run completes and writes the lock file; the
\* empty stage causes no halt and no error.
C4_EmptyStageCompletes ==
    (Ended /\ AllStagesSucceeded /\ HasEmptyStage) =>
        /\ outcome # "raise"
        /\ lockfile.exists
        /\ ~reqs_newer

\* C5: a run that ends before any stage has succeeded (manifest missing,
\* manifest failing reqs_check, first stage failing) exits with an error and
\* leaves the lock file as it was; with a missing or invalid manifest no
\* resolver create or install was invoked.
C5_NoPartialOutput ==
    (Ended /\ (\A k \in DOMAIN attempted : ~attempted[k].ok)) =>
        /\ outcome \in {"exit", "raise"}
        /\ (~reqs.exists \/ ~reqs_check(reqs) \/ attempted # <<>>) => outcome = "exit"
        /\ lockfile = lock_before
        /\ (~reqs.exists \/ ~reqs_check(reqs)) => (calls = 0 /\ attempted = <<>>)

C5_Witness ==
    /\ Ended
    /\ lock_before.exists
    /\ \/ ~reqs_check(reqs)
       \/ (Len(attempted) = 1 /\ ~attempted[1].ok /\ calls = 1)

\* C6: in clean-slate mode the scratch environment of the run does not exist
\* when lockfile_generate ends, whatever the outcome.
C6_ScratchEnvDeleted ==
    (Ended /\ gen.regenerate) => ~check_env_exists(gen.test_env)

\* The requirement files create_split_files writes for the manifest
SplitFilesOfRun ==
    LET channel_order == get_channel_order(reqs.order)
        cd == env_split(reqs.deps, channel_order).cd
    IN {SplitFileName(c) : c \in {k \in Range(channel_order) : k = "pip" => PipIsDict(cd)}}

\* C8: after a successful lockfile_generate no scratch file of the run is
\* left: each per-channel requirement file, each stage's lock segment and
\* the channel-order file are gone.
C8_ScratchFilesDeleted ==
    (Ended /\ outcome = "ok") =>
        /\ ~order_file.exists
        /\ \A f \in SplitFilesOfRun : ~req_files[f].exists
        /\ \A c \in Range(gen.order_list) : ~seg_files[c].exists

\* C9: after lockfile_generate succeeds on a manifest that passes
\* reqs_check, the lock file passes lockfile_check and lockfile_reqs_check.
C9_LockPassesChecks ==
    (Ended /\ outcome = "ok" /\ reqs_check(reqs)) =>
        /\ lockfile_check(lockfile)
        /\ lockfile_reqs_check(reqs, lockfile, reqs_newer)

\* C21: for every manifest with a channel-qualified dependency whose channel
\* is not in the derived channel order, env_split raises, and a
\* lockfile_generate run on it ends in an error before any per-channel
\* package list is written.
C21_UnlistedChannelRejected ==
    [][LET Unlisted(r) == \E k \in DOMAIN r.deps :
                             /\ r.deps[k].kind = "conda" /\ r.deps[k].chan # ""
                             /\ r.deps[k].chan \notin Range(get_channel_order(r.order))
       IN /\ Unlisted(reqs') =>
                /\ env_split(reqs'.deps, get_channel_order(reqs'.order)).err
                /\ create_split_files(reqs', order_file', req_files').raised
          /\ (runs' # runs /\ Unlisted(reqs)) =>
                /\ outcome' \in {"raise", "exit"}
                /\ pc' = "idle"
                /\ req_files' = req_files]_vars

C21_Witness ==
    /\ \E k \in DOMAIN reqs.deps :
          /\ reqs.deps[k].kind = "conda" /\ reqs.deps[k].chan # ""
          /\ reqs.deps[k].chan \notin Range(get_channel_order(reqs.order))
    /\ PipSpecs(reqs.deps) # <<>>
    /\ pc = "idle" /\ outcome = "raise" /\ runs > 0
    /\ order_file.exists

\* C22: splitting partitions the dependencies without loss or duplication:
\* every channel-qualified dependency appears, qualifier stripped, in the
\* list of its own channel only; every unqualified one in the defaults list
\* only; the pip section goes to the pip stage only.
C22_SplitPartitions ==
    LET channel_order == get_channel_order(reqs.order)
        split == env_split(reqs.deps, channel_order)
        conda_channels == Range(channel_order) \ {"pip"}
        home(d) == IF d.chan = "" THEN "defaults" ELSE d.chan
    IN (reqs.exists /\ ~split.err) =>
          /\ \A k \in DOMAIN reqs.deps :
                LET d == reqs.deps[k]
                IN IF d.kind = "pipdict"
                   THEN d.pip # <<>> =>
                           /\ split.cd["pip"] = <<d>>
                           /\ \A c \in conda_channels : d \notin Range(split.cd[c])
                   ELSE \A c \in Range(channel_order) :
                           Bare(d) \in Range(split.cd[c]) <=> c = home(d)
          /\ \A c \in conda_channels : \A j \in DOMAIN split.cd[c] :
                \E k \in DOMAIN reqs.deps :
                    Bare(reqs.deps[k]) = split.cd[c][j] /\ home(reqs.deps[k]) = c

\* C23: after reqs_add of a package the manifest holds exactly one
\* requirement of that name across the conda and pip sections, the new one:
\* every requirement of the name, whatever its version, channel or manager,
\* is replaced, and no sequence of calls leaves a name twice.
C23_AddReplacesByName ==
    LET named(r, n) ==
            LET all == SelectSeq(CondaSpecs(r.deps), LAMBDA d : d.kind # "pipdict")
                          \o PipSpecs(r.deps)
            IN {k \in DOMAIN all : all[k].name = n}
    IN /\ \A n \in Range(PkgOrder) : Cardinality(named(reqs, n)) <= 1
       /\ \A package \in PackageArgs, channel \in {"", "pip", "conda-forge", "bioconda"} :
             LET call == reqs_add(reqs, package, channel)
                 new == IF channel = "pip" THEN PipDep(package.name, package.ver)
                        ELSE IF channel = "" THEN package
                        ELSE [package EXCEPT !.chan = channel]
             IN ((package.chan # "" => channel = "") /\ ~call.raised) =>
                   /\ Cardinality(named(call.reqs, package.name)) = 1
                   /\ new \in AllSpecs(call.reqs)

C23_Witness ==
    /\ outcome = "ok"
    /\ PipDep("flask", "2.0") \in Range(PipSpecs(reqs.deps))
    /\ CondaDep("bioconda", "pylint", "") \in Range(reqs.deps)
    /\ \A k \in DOMAIN reqs.deps : reqs.deps[k].kind = "conda" => reqs.deps[k].name # "flask"

\* C24: reqs_remove(P) removes every requirement, unqualified, qualified or
\* pip, pinned or not, whose package name is in P, and leaves every
\* requirement of another name in the manifest.
C24_RemoveByName ==
    \A package \in {a \in PackageArgs : a.chan = "" /\ a.ver = ""} :
        \A call \in reqs_remove(reqs, package) :
            ~call.raised =>
                /\ \A d \in AllSpecs(call.reqs) : d.name # package.name
                /\ \A d \in AllSpecs(reqs) : d.name # package.name => d \in AllSpecs(call.reqs)

\* ------------------------------------------------------------------------
\* conda ops reqs check on hand-edited manifests
\* ------------------------------------------------------------------------
\* reqs_check(config, die_on_error) with the operator's reply to the name
\* prompt; the name update is the one write that reaches the file.
ReqsCheck ==
    /\ pc = "idle"
    /\ \E answer \in {"y", "n"}, die_on_error \in BOOLEAN :
          LET call == reqs_check_call(reqs, answer, die_on_error)
          IN /\ reqs' = call.reqs
             /\ reqs_newer' = (reqs_newer \/ call.reqs # reqs)
             /\ chk' = [NoCheck EXCEPT !.fn = "reqs_check",
                                       !.args.die_on_error = die_on_error,
                                       !.result = call.result]
    /\ UNCHANGED <<lockfile, order_file, req_files, seg_files, temp_pip_report, envs,
                   active, pc, gen, outcome, attempted, lock_before, envs_before, calls,
                   removed, runs, stdout>>

\* The manifests an operator may have written by hand: those above, ones with
\* an accepted spec that is not in canonical form (alone, in the pip section,
\* beside a duplicate, beside a malformed spec), and each of them under the
\* name of another environment.
InitReqsCheck ==
    /\ \E m \in Manifests \cup
              {NoReqs,
               Reqs(<<"defaults">>, <<[CondaDep("", "python", "1.2") EXCEPT !.canonical = FALSE]>>),
               Reqs(<<"defaults">>,
                    <<PipSection(<<[PipDep("flask", "2.0") EXCEPT !.canonical = FALSE]>>),
                      CondaDep("", "python", "")>>),
               Reqs(<<"defaults">>,
                    <<CondaDep("", "python", ""),
                      [CondaDep("", "python", "1.2") EXCEPT !.canonical = FALSE]>>),
               Reqs(<<"defaults">>,
                    <<BadDep("python"),
                      [CondaDep("", "pylint", "2.0") EXCEPT !.canonical = FALSE]>>),
               Reqs(<<"defaults">>,
                    <<PipSection(<<PipDep("flask", ""), PipDep("flask", "2.0")>>),
                      CondaDep("", "python", "")>>),
               Reqs(<<"defaults">>,
                    <<PipSection(<<PipDep("python", "")>>), CondaDep("", "python", "")>>)} :
          \E n \in {env_name, base_env} :
             reqs = IF m.exists THEN [m EXCEPT !.name = n] ELSE m
    /\ reqs_newer \in BOOLEAN
    /\ lockfile = AbsentFile
    /\ order_file = AbsentFile
    /\ req_files = [f \in ReqFileNames |-> AbsentFile]
    /\ seg_files = [c \in Channels |-> AbsentFile]
    /\ temp_pip_report = FALSE
    /\ envs = [n \in {base_env} |-> {}]
    /\ active = base_env
    /\ pc = "idle"
    /\ gen = NoGen
    /\ outcome = "none"
    /\ attempted = <<>>
    /\ lock_before = AbsentFile
    /\ envs_before = {base_env}
    /\ calls = 0
    /\ removed = {}
    /\ runs = 0
    /\ chk = NoCheck
    /\ stdout = Terminal

SpecReqsCheck == InitReqsCheck /\ [][ReqsCheck]_vars

\* C25: reqs_check answers False (exits when die_on_error is given) for every
\* manifest holding a malformed spec or a name given more than once across the
\* conda and pip lists, and answers True for every manifest whose name is the
\* managed environment's and whose specs are all well-formed and distinct by
\* name.
C25_ReqsCheckAnswer ==
    [][LET specs == SelectSeq(CondaSpecs(reqs.deps) \o PipSpecs(reqs.deps),
                              LAMBDA d : d.kind # "pipdict")
           malformed == \E d \in Range(specs) : ~d.ok
       IN (chk' # chk /\ chk'.fn = "reqs_check" /\ reqs.exists) =>
             /\ (malformed \/ HasDuplicates(specs)) =>
                   chk'.result = (IF chk'.args.die_on_error THEN "exit" ELSE "False")
             /\ (reqs.name = env_name /\ ~malformed /\ ~HasDuplicates(specs)) =>
                   chk'.result = "True"]_vars

\* C26: on a manifest of the managed environment's name, reqs_check rewrites
\* the dependencies exactly when every spec is valid, no name is given twice
\* and some spec is not canonical, and then writes each spec in canonical
\* form; otherwise the file is unchanged.
C26_RewriteOnlyToCanonicalise ==
    [][LET specs == SelectSeq(CondaSpecs(reqs.deps) \o PipSpecs(reqs.deps),
                              LAMBDA d : d.kind # "pipdict")
           due == /\ \A d \in Range(specs) : d.ok
                  /\ ~HasDuplicates(specs)
                  /\ \E d \in Range(specs) : ~d.canonical
           Canon(d) == [d EXCEPT !.canonical = TRUE]
       IN (chk' # chk /\ chk'.fn = "reqs_check" /\ reqs.exists /\ reqs.name = env_name) =>
             IF due
             THEN /\ reqs' # reqs
                  /\ {Canon(d) : d \in Range(specs)} = AllSpecs(reqs')
             ELSE reqs' = reqs]_vars

C28_EnvCreateGuards ==
    [][((check_env_exists(env_name) \/ ~lockfile.exists) /\ EnvCreate) =>
          /\ outcome' = "exit"
          /\ envs' = envs]_vars

C28_Witness ==
    /\ outcome = "exit"
    /\ check_env_exists(env_name)
    /\ lockfile.exists
    /\ envs[env_name] # EnvFromLock(lockfile.body, "conda")
    /\ envs_before = DOMAIN envs
    /\ removed = {}
    /\ chk = NoCheck
    /\ stdout = Terminal

\* ------------------------------------------------------------------------
\* Lock entries and the explicit files
\* ------------------------------------------------------------------------
\* The step of env_lock for one conda package: the entry of its conda list
\* --json record gets the url and md5 of a line of conda list --explicit
\* --md5, and the entry is written as a lock file.  A line the entry does not
\* accept exits.
AddCondaExplicitInfo ==
    /\ pc = "idle"
    /\ \E p \in {Pkg("python", "1.2", "pkgs/main"), Pkg("pylint", "2.0", "conda-forge"),
                 Pkg("pylint", "2.0", "pkgs/main"), Pkg("flask", "2.0", "pypi")},
          q \in {Pkg("python", "1.2", "pkgs/main"), Pkg("python", "1.3", "pkgs/main"),
                 Pkg("pylint", "2.0", "conda-forge"),
                 Pkg("pylint-venv", "2.0", "conda-forge")} :
          LET added == add_conda_explicit_info(from_conda_list(p), ExplicitLine(q))
          IN /\ lockfile' = IF added.err THEN lockfile ELSE File(<<added.entry>>)
             /\ outcome' = IF added.err THEN "exit" ELSE "ok"
    /\ chk' = NoCheck
    /\ UNCHANGED <<reqs, reqs_newer, order_file, req_files, seg_files, temp_pip_report,
                   envs, active, pc, gen, attempted, lock_before, envs_before, calls,
                   removed, runs, stdout>>

\* A generation that opens the explicit files for appending
GenerateExplicitAppending ==
    /\ pc = "idle"
    /\ lockfile.exists
    /\ LET call == generate_explicit_lock_files(lockfile.body)
       IN /\ chk' = [NoCheck EXCEPT !.fn = "generate_explicit_lock_files",
                                    !.result = call.end,
                                    !.wrote = DOMAIN call.text]
          /\ req_files' = [f \in DOMAIN req_files |->
                              IF f \in DOMAIN call.text
                              THEN File(req_files[f].body \o call.text[f])
                              ELSE req_files[f]]
    /\ UNCHANGED <<reqs, reqs_newer, lockfile, order_file, seg_files,
                   temp_pip_report, envs, active, pc, gen, outcome, attempted,
                   lock_before, envs_before, calls, removed, runs, stdout>>

\* generate_explicit_lock_files(config) on the lock file: each file it
\* writes is opened with mode "w", a file it does not write stays as it was
GenerateExplicit ==
    /\ pc = "idle"
    /\ lockfile.exists
    /\ LET call == generate_explicit_lock_files(lockfile.body)
       IN /\ chk' = [NoCheck EXCEPT !.fn = "generate_explicit_lock_files",
                                    !.result = call.end,
                                    !.wrote = DOMAIN call.text]
          /\ req_files' = [f \in DOMAIN req_files |->
                              IF f \in DOMAIN call.text THEN File(call.text[f])
                              ELSE req_files[f]]
    /\ UNCHANGED <<reqs, reqs_newer, lockfile, order_file, seg_files,
                   temp_pip_report, envs, active, pc, gen, outcome, attempted,
                   lock_before, envs_before, calls, removed, runs, stdout>>

\* ------------------------------------------------------------------------
\* extract_pip_installed_filenames (the transcript of pip install --verbose)
\* ------------------------------------------------------------------------
\* A lookup that answers for a package the lock file does not hold
satisfied_invented(lock_list, package_name) ==
    LET hits == {k \in DOMAIN lock_list : lock_list[k].name = package_name}
        package == lock_list[CHOOSE k \in hits : \A h \in hits : k <= h]
    IN IF hits = {}
       THEN {[version |-> None, filename |-> None, url |-> None, sha256 |-> None]}
       ELSE {[version |-> package.version, filename |-> None, url |-> package.url,
              sha256 |-> IF package.manager = "pip" THEN package.hash ELSE None]}

\* The "satisfied: " branch: the first lock entry of that name gives the
\* version, url and sha256 (a conda entry holds an md5 and no sha256; env_lock
\* writes the file name under the key "filenmae", so "filename" is absent);
\* nothing when no entry has the name
satisfied_from_lockfile(lock_list, package_name) ==
    LET hits == {k \in DOMAIN lock_list : lock_list[k].name = package_name}
        package == lock_list[CHOOSE k \in hits : \A h \in hits : k <= h]
    IN IF hits = {} THEN {}
       ELSE {[version |-> package.version, filename |-> None, url |-> package.url,
              sha256 |-> IF package.manager = "pip" THEN package.hash ELSE None]}

\* extract_pip_installed_filenames(stdout, config).  list_stdout is the list
\* of segments re.split leaves, each with the text that decides its branch, the
\* requirement it names, the file it names and whether PyPI lists that file.
\* A "satisfied: " segment opens the lock file, which raises when there is
\* none.
extract_pip_installed_filenames(list_stdout, lf) ==
    LET Put(d, n, r) == [x \in DOMAIN d \cup {n} |-> IF x = n THEN r ELSE d[x]]
        \* filename.split("-")[1]
        Dashes(f) == {k \in 1..Len(f) : SubSeq(f, k, k) = "-"}
        First(f) == CHOOSE k \in Dashes(f) : \A h \in Dashes(f) : k <= h
        Second(f) ==
            LET later == {k \in Dashes(f) : k > First(f)}
            IN IF later = {} THEN Len(f) + 1
               ELSE CHOOSE k \in later : \A h \in later : k <= h
        \* get_pypi_package_info: (None, None) when the request fails or no
        \* release has the file name
        Fetched(seg) ==
            [version |-> SubSeq(seg.filename, First(seg.filename) + 1,
                                Second(seg.filename) - 1),
             filename |-> seg.filename,
             url |-> IF seg.on_pypi THEN "https://files.io/" \o seg.filename ELSE None,
             sha256 |-> IF seg.on_pypi THEN "sha256" \o seg.filename ELSE None]
        RECURSIVE Walk(_, _)
        Walk(k, filename_dict) ==
            IF k > Len(list_stdout) THEN [raised |-> FALSE, filename_dict |-> filename_dict]
            ELSE IF list_stdout[k].text \in {"Using cached", "Downloading"}
            THEN IF Dashes(list_stdout[k].filename) = {}
                 THEN [raised |-> TRUE, filename_dict |-> <<>>]
                 ELSE Walk(k + 1, Put(filename_dict, list_stdout[k].name, Fetched(list_stdout[k])))
            ELSE IF list_stdout[k].text = "satisfied: "
            THEN IF ~lf.exists THEN [raised |-> TRUE, filename_dict |-> <<>>]
                 ELSE LET found == satisfied_from_lockfile(lf.body, list_stdout[k].name)
                      IN IF found = {} THEN Walk(k + 1, filename_dict)
                         ELSE Walk(k + 1, Put(filename_dict, list_stdout[k].name,
                                              CHOOSE r \in found : TRUE))
            ELSE \* "Unimplemented so far...": logged, nothing recorded
                 Walk(k + 1, filename_dict)
    IN Walk(1, <<>>)

\* pip_step_env_lock, from the captured transcript to pip_dict: pip's
\* transcript has up to MaxSegments segments.  The extraction changes nothing
\* it reads, so it is applied once to each lock file and transcript.
ExtractPipInstalledFilenames ==
    /\ pc = "idle" /\ chk = NoCheck
    /\ LET Seg(text, name, filename, on_pypi) ==
               [text |-> text, name |-> name, filename |-> filename, on_pypi |-> on_pypi]
           Wheel(name, version) == name \o "-" \o version \o "-py3-none-any.whl"
           Segments ==
               {Seg("satisfied: ", n, "", FALSE) : n \in {"flask", "python", "pylint-venv"}}
                 \cup {Seg(t, "flask", Wheel("flask", "2.1"), b) :
                          t \in {"Using cached", "Downloading"}, b \in BOOLEAN}
                 \cup {Seg("Downloading", "pylint", Wheel("pylint", "2.0"), TRUE),
                       Seg("Installing", "build dependencies", "", FALSE)}
       IN \E n \in 0..MaxSegments : \E transcript \in [1..n -> Segments] :
             LET call == extract_pip_installed_filenames(transcript, lockfile)
             IN /\ stdout' = [stdout EXCEPT !.capture_output = transcript]
                /\ chk' = [NoCheck EXCEPT !.fn = "extract_pip_installed_filenames",
                                          !.result = IF call.raised THEN "raise" ELSE "ok",
                                          !.returned = call.filename_dict]
    /\ UNCHANGED <<reqs, reqs_newer, lockfile, order_file, req_files, seg_files,
                   temp_pip_report, envs, active, pc, gen, outcome, attempted,
                   lock_before, envs_before, calls, removed, runs>>

\* The explicit files are files of the ops directory beside the requirement
\* files.  Lock files of up to two entries: a conda package, and pip packages as
\* from_pip_report leaves them for a downloaded archive (url and sha256), a
\* vcs checkout (url, no sha256) and a report without download_info
\* (neither), and one whose url was removed by hand
InitLockSpec ==
    /\ reqs = ReqsDefault
    /\ reqs_newer = FALSE
    /\ \E pool \in {<<from_pip_report(Pkg("flask", "2.0", "pypi")),
                      [from_pip_report(Pkg("pylint", "2.0", "pypi")) EXCEPT !.hash = None],
                      [from_pip_report(Pkg("samtools", "1.0", "pypi"))
                          EXCEPT !.hash = None, !.url = None],
                      [from_pip_report(Pkg("pip", "1.0", "pypi")) EXCEPT !.url = None],
                      add_conda_explicit_info(
                          from_conda_list(Pkg("python", "1.2", "pkgs/main")),
                          ExplicitLine(Pkg("python", "1.2", "pkgs/main"))).entry>>} :
          \E j, k \in 0..Len(pool) :
             lockfile = IF j = 0 /\ k = 0 THEN AbsentFile
                        ELSE IF j = 0 THEN File(<<pool[k]>>)
                        ELSE IF k = 0 \/ k = j THEN File(<<>>)
                        ELSE File(<<pool[j], pool[k]>>)
    /\ order_file = AbsentFile
    /\ req_files = [f \in ReqFileNames \cup {"explicit_lockfile", "pip_explicit_lockfile",
                                            "nohash_explicit_lockfile"} |-> AbsentFile]
    /\ seg_files = [c \in Channels |-> AbsentFile]
    /\ temp_pip_report = FALSE
    /\ envs = [n \in {base_env} |-> {}]
    /\ active = base_env
    /\ pc = "idle"
    /\ gen = NoGen
    /\ outcome = "none"
    /\ attempted = <<>>
    /\ lock_before = lockfile
    /\ envs_before = {base_env}
    /\ calls = 0
    /\ removed = {}
    /\ runs = 0
    /\ chk = NoCheck
    /\ stdout = Terminal

SpecLockSpec == InitLockSpec /\ [][AddCondaExplicitInfo \/ GenerateExplicit]_vars

SpecExtract == InitLockSpec /\ [][ExtractPipInstalledFilenames]_vars

\* ------------------------------------------------------------------------
\* env_lock of the managed environment
\* ------------------------------------------------------------------------
\* env_lock(config): the listing of the managed environment is written to
\* the lock file, or the call exits
EnvLock ==
    /\ pc = "idle"
    /\ check_env_exists(env_name)
    /\ LET lock == env_lock(envs[env_name], NoPipDict)
       IN /\ lockfile' = IF lock.err THEN lockfile ELSE File(lock.entries)
          /\ outcome' = IF lock.err THEN "exit" ELSE "ok"
    /\ chk' = NoCheck
    /\ UNCHANGED <<reqs, reqs_newer, order_file, req_files, seg_files, temp_pip_report,
                   envs, active, pc, gen, attempted, lock_before, envs_before, calls,
                   removed, runs, stdout>>

\* Managed environments with packages of the remote channels, of pip and
\* of the local build channel, at most one package of a name
InitEnvLock ==
    /\ reqs = ReqsDefault
    /\ reqs_newer = FALSE
    /\ lockfile \in {AbsentFile, File(<<>>)}
    /\ order_file = AbsentFile
    /\ req_files = [f \in ReqFileNames |-> AbsentFile]
    /\ seg_files = [c \in Channels |-> AbsentFile]
    /\ temp_pip_report = FALSE
    /\ \E e \in SUBSET {Pkg("python", "1.2", "pkgs/main"), Pkg("python", "1.2", "local"),
                        Pkg("pylint", "2.0", "conda-forge"), Pkg("pylint", "2.0", "local"),
                        Pkg("pylint-venv", "2.0", "conda-forge"),
                        Pkg("flask", "2.0", "pypi")} :
          /\ \A p, q \in e : p.name = q.name => p = q
          /\ envs = [n \in {base_env, env_name} |-> IF n = env_name THEN e ELSE {}]
    /\ active = base_env
    /\ pc = "idle"
    /\ gen = NoGen
    /\ outcome = "none"
    /\ attempted = <<>>
    /\ lock_before = lockfile
    /\ envs_before = DOMAIN envs
    /\ calls = 0
    /\ removed = {}
    /\ runs = 0
    /\ chk = NoCheck
    /\ stdout = Terminal

SpecEnvLock == InitEnvLock /\ [][EnvLock]_vars

\* C29: a lock entry built by from_conda_list and then given any explicit
\* line add_conda_explicit_info accepts passes check_consistency.
C29_AcceptedLineIsConsistent ==
    [][(lockfile' # lockfile /\ outcome' = "ok") =>
          \A e \in Range(lockfile'.body) : check_consistency(e)]_vars

\* C30: when the explicit files are generated from a lock file whose entries
\* are consistent and whose conda entries have url and md5, generation does
\* not fail and every pip entry is in exactly one pip explicit file: the
\* hash-verified one when it has a url and a hash, the no-hash one otherwise.
C30_PipEntryInOneFile ==
    LET call == generate_explicit_lock_files(lockfile.body)
        entries == Range(lockfile.body)
        In(e, f) == /\ f \in DOMAIN call.text
                    /\ \E k \in DOMAIN call.text[f] :
                          Contains(call.text[f][k], e.name \o " @ ")
    IN (/\ chk.fn = "generate_explicit_lock_files"
        /\ \A e \in entries : /\ check_consistency(e)
                              /\ e.manager = "conda" => (e.url # None /\ e.hash # None)) =>
          /\ chk.result = "ok"
          /\ \A e \in {x \in entries : x.manager = "pip"} :
                LET own == IF e.url # None /\ e.hash # None THEN "pip_explicit_lockfile"
                           ELSE "nohash_explicit_lockfile"
                IN /\ In(e, own)
                   /\ \A f \in DOMAIN call.text \ {own} : ~In(e, f)

C37_StdoutRestored ==
    [][(pc = "stages" /\ gen.order_list[gen.i] \in pip_channels) =>
          stdout'.stream = stdout.stream]_vars

\* C33: lockfile_check called with die_on_error=False answers True or False
\* and never raises; on a missing lock file and on one that cannot be parsed
\* it answers False.
C33_LockfileCheckAnswers ==
    (chk.fn = "lockfile_check" /\ ~chk.args.die_on_error) =>
        /\ chk.result \in {"True", "False"}
        /\ (~lockfile.exists \/ lockfile = Unparsable) => chk.result = "False"

\* C32: after an extraction that returned, a package whose segments all say
\* "already satisfied" has the version, url and sha256 of the lock entry of
\* its name, and has no record at all when the lock file holds no such entry.
C32_SatisfiedFromLock ==
    LET transcript == stdout.capture_output
        satisfied == {transcript[k].name : k \in DOMAIN transcript} \
                     {transcript[k].name : k \in {j \in DOMAIN transcript :
                                                     transcript[j].text # "satisfied: "}}
    IN (chk.fn = "extract_pip_installed_filenames" /\ chk.result = "ok") =>
          \A n \in satisfied :
             LET hits == {k \in DOMAIN lockfile.body : lockfile.body[k].name = n}
             IN IF hits = {} THEN n \notin DOMAIN chk.returned
                ELSE /\ n \in DOMAIN chk.returned
                     /\ \E k \in hits :
                           /\ chk.returned[n].version = lockfile.body[k].version
                           /\ chk.returned[n].url = lockfile.body[k].url
                           /\ chk.returned[n].sha256 =
                                 IF lockfile.body[k].manager = "pip"
                                 THEN lockfile.body[k].hash ELSE None

C32_Witness ==
    /\ chk.fn = "extract_pip_installed_filenames" /\ chk.result = "ok"
    /\ \E j, k \in DOMAIN stdout.capture_output :
          /\ stdout.capture_output[j].text = "satisfied: "
          /\ stdout.capture_output[j].name = "flask"
          /\ stdout.capture_output[k].text = "satisfied: "
          /\ stdout.capture_output[k].name = "pylint-venv"
    /\ DOMAIN chk.returned = {"flask"}
    /\ chk.returned["flask"].url # None /\ chk.returned["flask"].sha256 # None

\* C34: extraction always returns, and what it returns holds a record for
\* every segment that names a file, with or without url and sha256; segments
\* of no known kind leave no record.
C34_ExtractionReturns ==
    chk.fn = "extract_pip_installed_filenames" =>
        /\ chk.result = "ok"
        /\ \A k \in DOMAIN stdout.capture_output :
              stdout.capture_output[k].text \in {"Using cached", "Downloading"} =>
                 stdout.capture_output[k].name \in DOMAIN chk.returned
        /\ \A n \in DOMAIN chk.returned :
              \E k \in DOMAIN stdout.capture_output :
                 /\ stdout.capture_output[k].name = n
                 /\ stdout.capture_output[k].text \in
                       {"Using cached", "Downloading", "satisfied: "}

\* C35: a stage of lockfile_generate touches no environment but the run's
\* working environment, whose name does not change during the run; it
\* creates that environment only when it does not exist, and a stage that
\* finds it keeps the packages the earlier stages installed.
C35_OneWorkingEnv ==
    [][pc = "stages" =>
          /\ gen'.test_env = gen.test_env
          /\ DOMAIN envs \subseteq DOMAIN envs'
          /\ \A n \in DOMAIN envs' \ {gen.test_env} :
                n \in DOMAIN envs /\ envs'[n] = envs[n]
          /\ check_env_exists(gen.test_env) =>
                Names(envs[gen.test_env]) \subseteq Names(envs'[gen.test_env])]_vars

C35_Witness ==
    /\ Len(attempted) >= 2
    /\ attempted[1].ok /\ attempted[2].ok
    /\ attempted[1].channel \notin pip_channels /\ attempted[2].channel \notin pip_channels
    /\ gen.test_env \in DOMAIN envs
    /\ gen.test_env \notin envs_before
    /\ \E p, q \in envs[gen.test_env] : p.channel # q.channel

\* C36: in the lock file env_lock writes, a conda entry has the url and hash
\* of an explicit line that holds its own base_url/platform/dist_name, and
\* has neither when no line of the listing does.
C36_OwnExplicitLine ==
    outcome = "ok" =>
       \A k \in DOMAIN lockfile.body :
          LET e == lockfile.body[k]
              p == PkgNamed(envs[env_name], e.name)
              starter_str == BaseUrl(p) \o "/" \o platform \o "/" \o DistName(p)
              explicit == SelectSeq(ListExplicit(envs[env_name]),
                                    LAMBDA x : Contains(x, "https"))
              own == {j \in DOMAIN explicit : Contains(explicit[j], starter_str)}
          IN e.manager = "conda" =>
                IF own = {} THEN e.url = None /\ e.hash = None
                ELSE \E j \in own : /\ e.url = BeforeHash(explicit[j])
                                    /\ e.hash = AfterHash(explicit[j])

\* C40: env_delete of the managed environment when it does not exist only
\* warns: conda remove is not run, nothing changes and there is no exit.
C40_DeleteMissingOnlyWarns ==
    [][(~check_env_exists(env_name) /\ EnvDelete) =>
          /\ outcome' = "warned"
          /\ envs' = envs
          /\ removed' = {}]_vars

\* C39: consistency_check answers True when reqs_check, lockfile_check,
\* lockfile_reqs_check, env_check and env_lockfile_check all pass and False
\* otherwise, never raising, and the answer is the same whether or not the
\* managed environment is the active one.
C39_ConsistencyCheckAnswer ==
    LET Passes(act) ==
            /\ reqs_check(reqs)
            /\ "json" \notin DOMAIN lockfile /\ lockfile_check(lockfile)
            /\ lockfile_reqs_check(reqs, lockfile, reqs_newer)
            /\ env_check(envs, act)
            /\ env_name \in DOMAIN envs
            /\ env_lockfile_compare(envs[env_name], lockfile.body).check
    IN chk.fn = "consistency_check" =>
          \A act \in {active, base_env} :
             chk.result = IF Passes(act) THEN "True" ELSE "False"

\* C38: no step of a lockfile_generate run in regenerate mode, from its
\* entry to its end, creates, changes or deletes the managed environment.
C38_CleanSlateLeavesManagedEnv ==
    [][((pc # "idle" /\ gen.regenerate) \/ (runs' # runs /\ gen'.regenerate)) =>
          /\ (env_name \in DOMAIN envs') = (env_name \in DOMAIN envs)
          /\ env_name \in DOMAIN envs => envs'[env_name] = envs[env_name]
          /\ env_name \notin removed']_vars

C38_Witness ==
    /\ pc = "idle" /\ gen.regenerate /\ outcome = "ok"
    /\ gen.test_env \in removed
    /\ env_name \in DOMAIN envs /\ envs[env_name] # {}
    /\ lockfile.exists /\ lockfile # lock_before
====
